---- MODULE Spec2Model ----
(***************************************************************************)
(* A model of the EPUB packaging scripts of code2ebook:                    *)
(*   - createEpub of src/mdToEpub.js (lines 604-679) with its sequential   *)
(*     directory walk, image pass, document generation and archive write   *)
(*     (specification Spec);                                               *)
(*   - the document generators as pure functions (specification SpecGen);  *)
(*   - the queued processMarkdownFiles of src/unnamed/part_001, lines      *)
(*     659-736, whose queue runs 15 workers (specification SpecQueue);     *)
(*   - createEpubFromMarkdown of src/markedZip.js (SpecMarkedZip);         *)
(*   - createEpub run twice on the same inputs (SpecTwice);                *)
(*   - getMediaType applied to a file path (SpecMediaType);                *)
(*   - the chapter title of index.js, repoTomd.js and part_001 applied to  *)
(*     a relative path (SpecTitle);                                        *)
(*   - the repository walk of src/index.js (SpecIndex);                    *)
(*   - downloadImage applied to a URL and a chain of responses             *)
(*     (SpecDownload);                                                     *)
(*   - createEpub on a directory tree that holds a directory whose name    *)
(*     ends in .md (SpecMdDir);                                            *)
(*   - the three-argument createEpub of src/unnamed/part_001, lines        *)
(*     203-254 (SpecEarly);                                                *)
(*   - codeToMarkdown applied to a content string (SpecFence);             *)
(*   - generateFileName and createTempFiles of src/index.js (SpecTemp);    *)
(*   - processFiles of src/repoTomd.js and src/unnamed/part_000            *)
(*     (SpecTomd).                                                         *)
(*                                                                         *)
(* A path or an image reference is a sequence of name components, one per  *)
(* "/"-separated part; a component is <<stem, ext, search>>: the name      *)
(* without its extension, the extension as path.extname gives it, and,     *)
(* for the last part of a URL, the query string.                           *)
(***************************************************************************)
EXTENDS Integers, Sequences, FiniteSets, TLC

VARIABLES
  pc,             \* position of the running script
  tree,           \* input: the Markdown files below markdownDir
  coverImagePath, \* input: argument of createEpub, <<>> when not given
  resourcePaths,  \* input: argument of createEpub / createEpubFromMarkdown
  markdownFiles,  \* input: argument of createEpubFromMarkdown
  firstRun,       \* <<>>, or << what an earlier run on the same inputs did >>
  givenPath,      \* the argument given to a function applied on its own
  outputs,        \* the values the functions applied to givenPath returned
  chapters,       \* index.js: the chapters collected by the walk
  disk,           \* the working directory: path -> content
  zip,            \* the JSZip object: its entries in insertion order
  htmlFiles,      \* the chapter list
  titles,         \* the chapter titles
  processedFiles, \* { count, total }
  taskIdx,        \* loop position of the directory walk
  convLog,        \* per converted file: where the converter wrote and how it ended
  imgIdx,         \* loop position of processImages
  htmlContent,    \* processImages: the content of the chapter being rewritten
  downloads,      \* processImages: downloadPromises of the current chapter
  imageFiles,     \* processImages: collected image paths
  results,        \* per chapter: the settled results of its image pass
  uniqueImageFiles,
  uuid,           \* the value uuidv4() returned, "" before the call
  uuidCalls,      \* number of calls of uuidv4()
  contentOpf,     \* <<>> or <<the generated document>>
  tocXhtml,
  tocNcx,
  serialized,     \* <<>> or <<the buffer generateAsync produced>>
  epubFile,       \* <<>> or <<what was written to epubPath>>
  error,          \* the error caught by the script, "none" if none
  validated,      \* state of the external validator call
  exitStatus,     \* <<>> while the process runs, then << its exit status >>
  queue,          \* async.queue: tasks pushed and not yet started
  inflight,       \* async.queue: tasks started and not yet finished
  dirIdx          \* queued walk: position in the directory sequence

vars == <<pc, tree, coverImagePath, resourcePaths, markdownFiles, firstRun, givenPath,
          outputs, chapters, disk, zip, htmlFiles, titles,
          processedFiles, taskIdx, convLog, imgIdx, htmlContent, downloads,
          imageFiles, results, uniqueImageFiles, uuid, uuidCalls, contentOpf,
          tocXhtml, tocNcx, serialized, epubFile, error, validated, exitStatus, queue,
          inflight, dirIdx>>

----------------------------------------------------------------------------
(* Bounds of the model *)

MaxFiles == 2
MaxDepth == 1
MaxImgs == 2
MaxRedirects == 1
MaxChapters == 3
MaxResources == 2

----------------------------------------------------------------------------
(* Names and paths *)

N(stem, ext) == <<stem, ext, "">>

Last(s) == s[Len(s)]
Front(s) == SubSeq(s, 1, Len(s) - 1)

\* path.extname of a path: the extension of its last part
extname(p) == IF Len(p) = 0 THEN "" ELSE Last(p)[2]

\* path.basename(file, ext) of one name: the name without ext when it ends in ext
basenameExt(name, ext) == IF name[2] = ext THEN <<name[1], "", name[3]>> ELSE name

\* `${name}${ext}` where name has no extension left
withExt(name, ext) == <<name[1], name[2] \o ext, name[3]>>

\* path.join(a, b)
join(a, b) == a \o b

IsPrefix(p, q) == Len(p) <= Len(q) /\ SubSeq(q, 1, Len(p)) = p

\* str.replace(prefix + "/", "") for a path that may start with prefix: only
\* the first occurrence is removed, and it is the leading one when p starts with it
replacePrefix(p, prefix) ==
  IF IsPrefix(prefix, p) /\ Len(p) > Len(prefix)
  THEN SubSeq(p, Len(prefix) + 1, Len(p))
  ELSE p

epubDir == << N("OEBPS", "") >>
placeholderSrc == << N("images", ""), N("placeholder", ".svg") >>
placeholderPath == join(epubDir, placeholderSrc)

Range(s) == { s[i] : i \in 1..Len(s) }

RECURSIVE SeqsUpTo(_, _)
SeqsUpTo(S, n) ==
  IF n = 0 THEN { <<>> }
  ELSE LET shorter == SeqsUpTo(S, n - 1)
       IN shorter \cup { Append(s, x) : s \in { t \in shorter : Len(t) = n - 1 }, x \in S }

----------------------------------------------------------------------------
(* The input directory tree *)

FileNames == { N("a", ".md"), N("b", ".md"), N("n", ".txt") }
DirName == N("s", "")

\* the order in which fs.readdirSync lists the names of one directory
NameOrder == << N("a", ".md"), N("b", ".md"), N("d", ".md"), N("n", ".txt"), N("s", "") >>

RECURSIVE DirPath(_)
DirPath(d) == IF d = 0 THEN <<>> ELSE Append(DirPath(d - 1), DirName)

AllPaths == { Append(DirPath(d), f) : d \in 0..MaxDepth, f \in FileNames }
Trees == { t \in SUBSET AllPaths : Cardinality(t) <= MaxFiles }

\* fs.readdirSync(dir)
readdirSync(dir, t) ==
  SelectSeq(NameOrder, LAMBDA n : \E p \in t : IsPrefix(Append(dir, n), p))

\* fs.statSync(path).isDirectory()
isDirectory(path, t) == \E p \in t : IsPrefix(path, p) /\ Len(p) > Len(path)

RECURSIVE countMarkdownFiles(_, _)
RECURSIVE countEntries(_, _, _)
countEntries(directory, files, t) ==
  IF Len(files) = 0 THEN 0
  ELSE LET file == Head(files)
           filePath == Append(directory, file)
           here == IF isDirectory(filePath, t) THEN countMarkdownFiles(filePath, t)
                   ELSE IF file[2] = ".md" THEN 1 ELSE 0
       IN here + countEntries(directory, Tail(files), t)
countMarkdownFiles(directory, t) == countEntries(directory, readdirSync(directory, t), t)

\* The sequential processMarkdownFiles as the sequence of conversions it runs:
\* first the .md files of the directory in listing order, then each
\* subdirectory in listing order, recursively, with epubDir extended by its name.
RECURSIVE walkTasks(_, _, _)
RECURSIVE walkSubdirs(_, _, _, _)
markdownFilesOf(files) == SelectSeq(files, LAMBDA file : file[2] = ".md")
tasksOfDir(markdownDir, dir, mdFiles) ==
  [ i \in 1..Len(mdFiles) |->
      [ markdownDir |-> markdownDir, epubDir |-> dir, file |-> mdFiles[i] ] ]
walkSubdirs(markdownDir, dir, files, t) ==
  IF Len(files) = 0 THEN <<>>
  ELSE LET file == Head(files)
           filePath == Append(markdownDir, file)
           sub == IF isDirectory(filePath, t)
                  THEN walkTasks(filePath, Append(dir, file), t)
                  ELSE <<>>
       IN sub \o walkSubdirs(markdownDir, dir, Tail(files), t)
walkTasks(markdownDir, dir, t) ==
  LET files == readdirSync(markdownDir, t)
  IN tasksOfDir(markdownDir, dir, markdownFilesOf(files))
       \o walkSubdirs(markdownDir, dir, files, t)

----------------------------------------------------------------------------
(* Files on disk and rendered content *)

\* A rendered chapter is the sequence of the src values of its <img> tags.
httpUrl == << N("http:", ""), N("", ""), N("h", ""), N("p", ".png") >>
localMissing == << N("m", ".png") >>
Srcs == { httpUrl, localMissing }
Contents == SeqsUpTo(Srcs, MaxImgs)

File(kind, source, imgs) == [ kind |-> kind, source |-> source, imgs |-> imgs ]

existsSync(d, path) == path \in DOMAIN d

writeFile(d, path, content) ==
  [ p \in DOMAIN d \cup { path } |-> IF p = path THEN content ELSE d[p] ]

\* rm -rf directory
cleanDirectory(d, directory) ==
  [ p \in { q \in DOMAIN d : ~IsPrefix(directory, q) } |-> d[p] ]

emptyDisk == [ p \in {} |-> File("", <<>>, <<>>) ]

\* a converter whose catch rethrows instead of writing the error notice
convertMarkdownToHtmlPandocRethrowing(d, inputPath, outputPath, outcome, content) ==
  CASE outcome = "ok" ->
         [ disk |-> writeFile(d, outputPath, File("html", inputPath, content)),
           threw |-> FALSE ]
    [] OTHER -> [ disk |-> d, threw |-> TRUE ]

\* convertMarkdownToHtmlPandoc (the variant that recovers): outcome "ok" is a
\* conversion that rendered `content`; "failed" is a converter failure answered
\* by the error notice; "writeFailed" is a failure of the notice's own write,
\* which leaves the function by throwing.
convertMarkdownToHtmlPandoc(d, inputPath, outputPath, outcome, content) ==
  CASE outcome = "ok" ->
         [ disk |-> writeFile(d, outputPath, File("html", inputPath, content)),
           threw |-> FALSE ]
    [] outcome = "failed" ->
         [ disk |-> writeFile(d, outputPath, File("notice", inputPath, <<>>)),
           threw |-> FALSE ]
    [] OTHER -> [ disk |-> d, threw |-> TRUE ]

ConvertOutcomes == { "ok", "failed", "writeFailed" }
\* the converter cannot render a directory
outcomesFor(filePath, t) ==
  IF isDirectory(filePath, t) THEN ConvertOutcomes \ { "ok" } ELSE ConvertOutcomes

----------------------------------------------------------------------------
(* The archive object (JSZip): entries in insertion order.  zip.file creates *)
(* the folders of the entry's path first (createFolders), and a name that    *)
(* is already present keeps its position.                                    *)

Entry(name, dir, compression, content) ==
  [ name |-> name, dir |-> dir, compression |-> compression, content |-> content ]

hasEntry(z, name, dir) == \E i \in 1..Len(z) : z[i].name = name /\ z[i].dir = dir

RECURSIVE fileAdd(_, _, _, _, _)
folderAdd(z, name) ==
  IF hasEntry(z, name, TRUE) THEN z
  ELSE fileAdd(z, name, TRUE, "", File("folder", <<>>, <<>>))
fileAdd(z, name, dir, compression, content) ==
  LET withParents == IF Len(name) > 1 THEN folderAdd(z, Front(name)) ELSE z
      e == Entry(name, dir, compression, content)
  IN IF hasEntry(withParents, name, dir)
     THEN [ i \in 1..Len(withParents) |->
              IF withParents[i].name = name /\ withParents[i].dir = dir
              THEN e ELSE withParents[i] ]
     ELSE Append(withParents, e)

\* zip.file(name, content) and zip.file(name, content, { compression: "STORE" })
zipFile(z, name, content) == fileAdd(z, name, FALSE, "", content)
zipFileStore(z, name, content) == fileAdd(z, name, FALSE, "STORE", content)
\* zip.folder(name)
zipFolder(z, name) == folderAdd(z, name)

mimetypeName == << N("mimetype", "") >>
metaInfName == << N("META-INF", "") >>
containerName == << N("META-INF", ""), N("container", ".xml") >>
Text(what) == File(what, <<>>, <<>>)

\* initializeEpubStructure of mdToEpub.js
initializeEpubStructure(z) ==
  LET z1 == zipFileStore(z, mimetypeName, Text("application/epub+zip"))
      z2 == zipFolder(z1, metaInfName)
      z3 == zipFolder(z2, epubDir)
  IN zipFile(z3, containerName, Text("container.xml"))

\* initializeEpubStructure of markedZip.js
initializeEpubStructureMarked(z) ==
  LET z1 == zipFolder(z, metaInfName)
      z2 == zipFolder(z1, epubDir)
      z3 == zipFileStore(z2, mimetypeName, Text("application/epub+zip"))
  IN zipFile(z3, containerName, Text("container.xml"))

----------------------------------------------------------------------------
(* The generated documents *)

\* the module-level metadata object of mdToEpub.js
metadata == [ title |-> "book", author |-> "author" ]

toLowerCase(ext) ==
  CASE ext = ".PNG" -> ".png"
    [] ext = ".JPG" -> ".jpg"
    [] ext = ".JPEG" -> ".jpeg"
    [] ext = ".Gif" -> ".gif"
    [] ext = ".WebP" -> ".webp"
    [] ext = ".SVG" -> ".svg"
    [] OTHER -> ext

getMediaType(filePath) ==
  LET extension == toLowerCase(extname(filePath))
  IN CASE extension \in { ".jpg", ".jpeg" } -> "image/jpeg"
       [] extension = ".png" -> "image/png"
       [] extension = ".gif" -> "image/gif"
       [] extension = ".webp" -> "image/webp"
       [] extension = ".svg" -> "image/svg+xml;charset=utf-8"
       [] OTHER -> "application/octet-stream"

\* getMediaType of src/unnamed/part_001: no case for .svg
getMediaTypeWithoutSvg(filePath) ==
  LET extension == toLowerCase(extname(filePath))
  IN CASE extension \in { ".jpg", ".jpeg" } -> "image/jpeg"
       [] extension = ".png" -> "image/png"
       [] extension = ".gif" -> "image/gif"
       [] extension = ".webp" -> "image/webp"
       [] OTHER -> "application/octet-stream"

Item(id, href, mediaType, properties) ==
  [ id |-> id, href |-> href, mediaType |-> mediaType, properties |-> properties ]

imagesHref(name) == << N("images", ""), name >>

chapterId(index) == "item" \o ToString(index + 1)
\* image ids that reuse the prefix of the chapter ids
imageIdAsItem(index) == "item" \o ToString(index + 1)
imageId(index) == "image" \o ToString(index + 1)
resourceId(index) == "res" \o ToString(index + 1)

chapterItems(files) ==
  [ i \in 1..Len(files) |->
      Item(chapterId(i - 1), files[i], "application/xhtml+xml", "") ]

spineOf(files) == [ i \in 1..Len(files) |-> [ idref |-> chapterId(i - 1) ] ]

\* imageFiles.forEach((file, index) => ...) from position `index` (0-based) on;
\* acc is [ items, added ]: the manifest items so far and the addedFiles set
RECURSIVE imageItems(_, _, _)
imageItems(files, index, acc) ==
  IF index >= Len(files) THEN acc
  ELSE LET file == files[index + 1]
           next == IF file \in acc.added THEN acc
                   ELSE [ items |-> Append(acc.items,
                                     Item(imageId(index), file, getMediaType(file), "")),
                          added |-> acc.added \cup { file } ]
       IN imageItems(files, index + 1, next)

RECURSIVE resourceItems(_, _, _)
resourceItems(paths, index, acc) ==
  IF index >= Len(paths) THEN acc
  ELSE LET resourcePath == paths[index + 1]
           href == imagesHref(Last(resourcePath))
           next == IF href \in acc.added THEN acc
                   ELSE [ items |-> Append(acc.items,
                                     Item(resourceId(index), href,
                                          getMediaType(resourcePath), "")),
                          added |-> acc.added \cup { href } ]
       IN resourceItems(paths, index + 1, next)

coverItems(cover, acc) ==
  IF Len(cover) = 0 THEN acc
  ELSE LET href == imagesHref(Last(cover))
       IN IF href \in acc.added THEN acc
          ELSE [ items |-> Append(acc.items,
                            Item("cover-image", href, "image/jpeg", "cover-image")),
                 added |-> acc.added \cup { href } ]

fixedItems ==
  << Item("ncx", << N("toc", ".ncx") >>, "application/x-dtbncx+xml", ""),
     Item("nav", << N("toc", ".xhtml") >>, "application/xhtml+xml", "nav") >>

generateContentOpf(meta, files, images, cover, resources, id) ==
  LET a0 == [ items |-> chapterItems(files), added |-> {} ]
      a1 == coverItems(cover, a0)
      a2 == imageItems(images, 0, a1)
      a3 == resourceItems(resources, 0, a2)
  IN [ title |-> meta.title, creator |-> meta.author, identifier |-> id,
       manifest |-> a3.items \o fixedItems, spine |-> spineOf(files) ]

titleAt(ts, i) == IF i <= Len(ts) THEN ts[i] ELSE "undefined"

\* a generateTocNcx that walks the chapter list from its end
generateTocNcxReversed(files, ts, id) ==
  [ uid |-> id, docTitle |-> metadata.title,
    navPoints |-> [ i \in 1..Len(files) |->
                      [ id |-> "navPoint-" \o ToString(i), playOrder |-> i,
                        navLabel |-> titleAt(ts, Len(files) + 1 - i),
                        src |-> files[Len(files) + 1 - i] ] ] ]

\* a generateTocNcx that ignores its uuid argument (the template then reads an
\* undefined variable)
generateTocNcxWithoutUuid(files, ts, id) ==
  [ uid |-> "undefined", docTitle |-> metadata.title,
    navPoints |-> [ i \in 1..Len(files) |->
                      [ id |-> "navPoint-" \o ToString(i), playOrder |-> i,
                        navLabel |-> titleAt(ts, i), src |-> files[i] ] ] ]

\* a generateTocNcx that derives the navPoint ids from the uuid
generateTocNcxWithUuidInIds(files, ts, id) ==
  [ uid |-> id, docTitle |-> metadata.title,
    navPoints |-> [ i \in 1..Len(files) |->
                      [ id |-> "navPoint-" \o id \o "-" \o ToString(i), playOrder |-> i,
                        navLabel |-> titleAt(ts, i), src |-> files[i] ] ] ]

generateTocNcx(files, ts, id) ==
  [ uid |-> id, docTitle |-> metadata.title,
    navPoints |-> [ i \in 1..Len(files) |->
                      [ id |-> "navPoint-" \o ToString(i), playOrder |-> i,
                        navLabel |-> titleAt(ts, i), src |-> files[i] ] ] ]

\* a generateTocXhtml that reads the title one position too far
generateTocXhtmlShifted(files, ts) ==
  [ i \in 1..Len(files) |-> [ href |-> files[i], title |-> titleAt(ts, i + 1) ] ]

generateTocXhtml(files, ts) ==
  [ i \in 1..Len(files) |-> [ href |-> files[i], title |-> titleAt(ts, i) ] ]

----------------------------------------------------------------------------
(* downloadImage and the per-image closure of processImages *)

Response(kind, status, contentType, location) ==
  [ kind |-> kind, status |-> status, contentType |-> contentType,
    location |-> location ]

\* new URL(url) succeeds
validUrl(url) == Len(url) >= 3 /\ url[1][1] \in { "http:", "https:" } /\ url[2][1] = ""
\* src.startsWith("http")
startsWithHttp(src) == Len(src) > 0 /\ src[1][1] \in { "http:", "https:" }
pathnameOf(url) == SubSeq(url, 4, Len(url))

fileExtensionFor(contentType, pathname) ==
  IF contentType # ""
  THEN CASE contentType = "image/jpeg" -> ".jpg"
         [] contentType = "image/png" -> ".png"
         [] contentType = "image/gif" -> ".gif"
         [] contentType = "image/webp" -> ".webp"
         [] contentType \in { "image/svg+xml", "image/svg+xml;charset=utf-8" } -> ".svg"
         [] OTHER -> IF extname(pathname) # "" THEN extname(pathname) ELSE ".jpg"
  ELSE extname(pathname)

destWithExtension(dest, fileExtension) ==
  IF extname(dest) = fileExtension THEN dest
  ELSE Append(Front(dest), << Last(dest)[1], fileExtension, "" >>)

Resolved(path) == [ status |-> "resolved", path |-> path ]
Rejected == [ status |-> "rejected", path |-> <<>> ]

\* downloadImage(url, dest): chain holds the responses the servers give, one per
\* request; a request that gets no response ends by the timeout event.
RECURSIVE downloadImage(_, _, _)
downloadImage(url, dest, chain) ==
  IF ~validUrl(url) THEN Rejected
  ELSE IF Len(chain) = 0 THEN Rejected
  ELSE LET response == Head(chain)
       IN IF response.kind # "response" THEN Rejected
          ELSE IF response.status = 200
          THEN Resolved(destWithExtension(dest,
                 fileExtensionFor(response.contentType, pathnameOf(url))))
          ELSE IF response.status >= 300 /\ response.status < 400
          THEN IF Len(response.location) > 0
               THEN downloadImage(response.location, dest, Tail(chain))
               ELSE Rejected
          ELSE Rejected

\* encodeURIComponent(search).replace(/[^a-zA-Z0-9]/g, "_") for the query
\* strings of the modelled URLs
sanitizeSearch(search) ==
  CASE search = "?v=1" -> "_3Fv_3D1"
    [] search = "?v=2" -> "_3Fv_3D2"
    [] OTHER -> search

\* the file name processImages derives from the URL's pathname and search (the
\* stems and extensions of the modelled URLs hold only letters, digits and dots,
\* which the final replace keeps)
imageNameOf(url) ==
  LET last == IF Len(pathnameOf(url)) = 0 THEN N("", "") ELSE Last(pathnameOf(url))
      tail == IF last[3] = "" THEN "" ELSE "_" \o sanitizeSearch(last[3])
  IN IF last[2] = "" THEN << last[1] \o tail, "", "" >>
     ELSE << last[1], last[2] \o tail, "" >>

imageDestPath(src) == join(epubDir, imagesHref(imageNameOf(src)))

\* path.relative(epubDir, p) for a path below epubDir
relativeToEpubDir(p) == replacePrefix(p, epubDir)

\* one entry of downloadPromises: state is "pending" or "settled", status is
\* what Promise.allSettled reports for it, download is how downloadImage ended
\* ("none" when it was not called)
Promise(state, status, src, newSrc, download) ==
  [ state |-> state, status |-> status, src |-> src, newSrc |-> newSrc,
    download |-> download ]

\* the closure at the moment it is created: a local reference is settled at
\* once with newSrc = src; an http reference whose URL does not parse falls
\* into the closure's catch; any other http reference waits for downloadImage
startImage(src) ==
  IF startsWithHttp(src)
  THEN IF validUrl(src) THEN Promise("pending", "", src, <<>>, "none")
       ELSE Promise("settled", "fulfilled", src, placeholderSrc, "none")
  ELSE Promise("settled", "fulfilled", src, src, "none")

\* a closure without the catch around downloadImage: a failed download
\* rejects the closure's promise
settleImageWithoutCatch(src, r) ==
  IF r.status = "resolved"
  THEN Promise("settled", "fulfilled", src, relativeToEpubDir(r.path), "resolved")
  ELSE Promise("settled", "rejected", src, <<>>, "rejected")

\* the closure after downloadImage settled with outcome r: its catch turns a
\* rejection into the placeholder, so the closure's own promise is fulfilled
settleImage(src, r) ==
  IF r.status = "resolved"
  THEN Promise("settled", "fulfilled", src, relativeToEpubDir(r.path), "resolved")
  ELSE Promise("settled", "fulfilled", src, placeholderSrc, "rejected")

\* htmlContent.replace(`src="${src}"`, `src="${newSrc}"`): the first occurrence
RECURSIVE replaceFirst(_, _, _)
replaceFirst(content, src, newSrc) ==
  IF Len(content) = 0 THEN content
  ELSE IF Head(content) = src THEN << newSrc >> \o Tail(content)
  ELSE << Head(content) >> \o replaceFirst(Tail(content), src, newSrc)

\* results.forEach(...) of processImages from position k on; acc is
\* [ content, imageFiles, zip, threw ]: readFileSync of a missing file throws
\* and ends the loop
RECURSIVE applyResults(_, _, _, _)
applyResults(rs, k, d, acc) ==
  IF k > Len(rs) \/ acc.threw THEN acc
  ELSE LET r == rs[k]
           content == replaceFirst(acc.content, r.src, r.newSrc)
           file == join(epubDir, r.newSrc)
           next ==
             IF r.status # "fulfilled" THEN acc
             ELSE IF r.newSrc = placeholderSrc
             THEN [ acc EXCEPT !.content = content ]
             ELSE IF ~existsSync(d, file)
             THEN [ acc EXCEPT !.content = content,
                               !.imageFiles = Append(acc.imageFiles, r.newSrc),
                               !.threw = TRUE ]
             ELSE [ acc EXCEPT !.content = content,
                               !.imageFiles = Append(acc.imageFiles, r.newSrc),
                               !.zip = zipFile(acc.zip, file, d[file]) ]
       IN applyResults(rs, k + 1, d, next)

\* a copy of the list that keeps repeated elements
uniqueOfKeepingAll(list) == list

\* [...new Set(list)]
RECURSIVE uniqueOf(_)
uniqueOf(list) ==
  IF Len(list) = 0 THEN <<>>
  ELSE LET front == uniqueOf(Front(list))
       IN IF Last(list) \in Range(front) THEN front ELSE Append(front, Last(list))

----------------------------------------------------------------------------
(* createEpub of src/mdToEpub.js, lines 604-679 *)

UUIDs == { "uuid-1", "uuid-2" }
Covers == { <<>>, << N("cover", ".jpg") >> }
resourceA == << N("res", ""), N("r", ".png") >>
resourceB == << N("res", ""), N("p", ".png") >>
MainResources == { <<>>, << resourceA >> }

\* what a previous run may have left in the working directory
staleDisk ==
  writeFile(emptyDisk, join(epubDir, << N("old", ".xhtml") >>),
            File("html", << N("old", ".md") >>, <<>>))
InitialDisks == { emptyDisk, staleDisk }

redirectTo(location) == Response("response", 302, "", location)
FinalResponses ==
  { Response("response", 200, "image/png", <<>>),
    Response("response", 200, "", <<>>),
    Response("response", 404, "", <<>>),
    Response("response", 302, "", <<>>),
    Response("error", 0, "", <<>>),
    Response("timeout", 0, "", <<>>) }

\* the response chains of one download: up to MaxRedirects redirects to the
\* same URL, then a final response
RECURSIVE ChainsUpTo(_)
ChainsUpTo(n) ==
  IF n = 0 THEN { << r >> : r \in FinalResponses }
  ELSE ChainsUpTo(n - 1)
         \cup { << redirectTo(httpUrl) >> \o c : c \in ChainsUpTo(n - 1) }
FetchChains == ChainsUpTo(MaxRedirects)

tasks == walkTasks(<<>>, epubDir, tree)

\* the state before any script has run, inputs aside
Fresh ==
  /\ zip = <<>> /\ htmlFiles = <<>> /\ titles = <<>>
  /\ processedFiles = [ count |-> 0, total |-> 0 ]
  /\ taskIdx = 1 /\ convLog = <<>> /\ imgIdx = 1 /\ htmlContent = <<>>
  /\ downloads = <<>> /\ imageFiles = <<>> /\ results = <<>>
  /\ uniqueImageFiles = <<>> /\ uuid = "" /\ uuidCalls = 0
  /\ contentOpf = <<>> /\ tocXhtml = <<>> /\ tocNcx = <<>>
  /\ serialized = <<>> /\ epubFile = <<>> /\ error = "none"
  /\ validated = "no" /\ exitStatus = <<>> /\ queue = <<>> /\ inflight = {} /\ dirIdx = 1

Init ==
  /\ pc = "start"
  /\ tree \in Trees
  /\ coverImagePath \in Covers
  /\ resourcePaths \in MainResources
  /\ markdownFiles = <<>> /\ firstRun = <<>>
  /\ givenPath = <<>> /\ outputs = <<>> /\ chapters = <<>>
  /\ disk \in InitialDisks
  /\ Fresh

\* what the EPUB scripts never change: their inputs, and the variables of the
\* functions and scripts modelled on their own
elsewhereVars == <<givenPath, outputs, chapters>>
inputVars == <<tree, coverImagePath, resourcePaths, markdownFiles, firstRun,
               elsewhereVars>>
queueVars == <<queue, inflight, dirIdx>>
walkVars == <<htmlFiles, titles, processedFiles, taskIdx, convLog>>
imageVars == <<imgIdx, htmlContent, downloads, imageFiles, results>>
genVars == <<uniqueImageFiles, uuid, uuidCalls, contentOpf, tocXhtml, tocNcx>>
outVars == <<serialized, epubFile, validated, exitStatus>>

\* new JSZip(), initializeEpubStructure, cleanDirectory, ensureDirectoryExists:
\* a filesystem error here is thrown before the try block
CreateEpubStart ==
  /\ pc = "start"
  /\ zip' = initializeEpubStructure(<<>>)
  /\ \E fsError \in BOOLEAN :
       IF fsError
       THEN pc' = "rejected" /\ error' = "EACCES" /\ disk' = disk
       ELSE pc' = "count" /\ error' = error /\ disk' = cleanDirectory(disk, epubDir)
  /\ UNCHANGED <<inputVars, queueVars, walkVars, imageVars, genVars, outVars>>

\* countMarkdownFiles, then the prologue of processMarkdownFiles: the
\* placeholder image is written and added to the archive (every nested call
\* repeats this with the same name and content).  readdirSync of a missing
\* markdownDir throws into the catch of createEpub.
CountAndPlaceholder ==
  /\ pc = "count"
  /\ \E missingDir \in { FALSE } \cup { tree = {} } :
       IF missingDir
       THEN /\ pc' = "failed" /\ error' = "ENOENT"
            /\ UNCHANGED <<disk, zip, processedFiles>>
       ELSE /\ pc' = "walk" /\ error' = error
            /\ processedFiles' = [ count |-> 0, total |-> countMarkdownFiles(<<>>, tree) ]
            /\ disk' = writeFile(disk, placeholderPath, File("svg", <<>>, <<>>))
            /\ zip' = zipFile(zip, placeholderPath, File("svg", <<>>, <<>>))
  /\ UNCHANGED <<inputVars, queueVars, htmlFiles, titles, taskIdx, convLog,
                 imageVars, genVars, outVars>>

htmlFilenameOf(file) == withExt(basenameExt(file, ".md"), ".xhtml")
\* htmlFilePath.replace(epubDir + path.sep, "") with the epubDir of the call
chapterHref(htmlFilePath, dir) == replacePrefix(htmlFilePath, dir)
\* path.basename(htmlFilename, ".xhtml")
chapterTitle(htmlFilename) ==
  LET b == basenameExt(htmlFilename, ".xhtml") IN b[1] \o b[2]

\* one iteration of `for (const file of markdownFiles)`
ConvertFile ==
  /\ pc = "walk" /\ taskIdx <= Len(tasks)
  /\ LET task == tasks[taskIdx]
         filePath == Append(task.markdownDir, task.file)
         htmlFilename == htmlFilenameOf(task.file)
         htmlFilePath == Append(task.epubDir, htmlFilename)
     IN \E outcome \in outcomesFor(filePath, tree) :
        \E content \in IF outcome = "ok" THEN Contents ELSE { <<>> } :
          LET r == convertMarkdownToHtmlPandoc(disk, filePath, htmlFilePath,
                                                outcome, content)
          IN /\ disk' = r.disk
             /\ convLog' = Append(convLog, [ source |-> filePath, path |-> htmlFilePath,
                                             outcome |-> outcome, content |-> content ])
             /\ IF r.threw
                THEN UNCHANGED <<htmlFiles, titles, processedFiles>>
                ELSE /\ htmlFiles' = Append(htmlFiles, chapterHref(htmlFilePath, task.epubDir))
                     /\ titles' = Append(titles, chapterTitle(htmlFilename))
                     /\ processedFiles' = [ processedFiles EXCEPT !.count = @ + 1 ]
  /\ taskIdx' = taskIdx + 1
  /\ UNCHANGED <<pc, inputVars, queueVars, zip, imageVars, genVars, outVars, error>>

\* processMarkdownFiles returned; processImages starts
ProcessImagesEnter ==
  /\ pc = "walk" /\ taskIdx > Len(tasks)
  /\ pc' = "images" /\ imgIdx' = 1 /\ imageFiles' = <<>>
  /\ UNCHANGED <<inputVars, queueVars, disk, zip, walkVars, htmlContent, downloads,
                 results, genVars, outVars, error>>

\* processImages, one chapter: the file is read, its <img> tags are matched and
\* one closure per tag is started
ImageStart ==
  /\ pc = "images" /\ imgIdx <= Len(htmlFiles)
  /\ LET htmlFilePath == join(epubDir, htmlFiles[imgIdx])
     IN IF ~existsSync(disk, htmlFilePath)
        THEN /\ pc' = "failed" /\ error' = "ENOENT"
             /\ UNCHANGED <<htmlContent, downloads>>
        ELSE /\ pc' = "downloading" /\ error' = error
             /\ htmlContent' = disk[htmlFilePath].imgs
             /\ downloads' = [ i \in 1..Len(disk[htmlFilePath].imgs) |->
                                 startImage(disk[htmlFilePath].imgs[i]) ]
  /\ UNCHANGED <<inputVars, queueVars, disk, zip, walkVars, imgIdx, imageFiles,
                 results, genVars, outVars>>

\* one pending downloadImage settles, in any order among the pending ones
ImageSettle ==
  /\ pc = "downloading"
  /\ \E i \in 1..Len(downloads) :
       /\ downloads[i].state = "pending"
       /\ \E chain \in FetchChains :
            LET src == downloads[i].src
                r == downloadImage(src, imageDestPath(src), chain)
            IN /\ downloads' = [ downloads EXCEPT ![i] = settleImage(src, r) ]
               /\ disk' = IF r.status = "resolved"
                          THEN writeFile(disk, r.path, File("image", src, <<>>))
                          ELSE disk
  /\ UNCHANGED <<pc, inputVars, queueVars, zip, walkVars, imgIdx, htmlContent,
                 imageFiles, results, genVars, outVars, error>>

\* a join that returns as soon as one closure has settled
ImageJoinOnFirstSettled ==
  /\ pc = "downloading"
  /\ \E i \in 1..Len(downloads) : downloads[i].state = "settled"
  /\ LET acc == applyResults(downloads, 1, disk,
                  [ content |-> htmlContent, imageFiles |-> imageFiles,
                    zip |-> zip, threw |-> FALSE ])
         htmlFilePath == join(epubDir, htmlFiles[imgIdx])
     IN /\ zip' = acc.zip
        /\ imageFiles' = acc.imageFiles
        /\ htmlContent' = acc.content
        /\ results' = Append(results, downloads)
        /\ IF acc.threw
           THEN /\ pc' = "failed" /\ error' = "ENOENT"
                /\ UNCHANGED <<disk, imgIdx>>
           ELSE /\ pc' = "images" /\ error' = error
                /\ disk' = writeFile(disk, htmlFilePath,
                                     [ disk[htmlFilePath] EXCEPT !.imgs = acc.content ])
                /\ imgIdx' = imgIdx + 1
  /\ UNCHANGED <<inputVars, queueVars, walkVars, downloads, genVars, outVars>>

\* Promise.allSettled returned: the results are applied and the chapter is
\* written back
ImageJoin ==
  /\ pc = "downloading"
  /\ \A i \in 1..Len(downloads) : downloads[i].state = "settled"
  /\ LET acc == applyResults(downloads, 1, disk,
                  [ content |-> htmlContent, imageFiles |-> imageFiles,
                    zip |-> zip, threw |-> FALSE ])
         htmlFilePath == join(epubDir, htmlFiles[imgIdx])
     IN /\ zip' = acc.zip
        /\ imageFiles' = acc.imageFiles
        /\ htmlContent' = acc.content
        /\ results' = Append(results, downloads)
        /\ IF acc.threw
           THEN /\ pc' = "failed" /\ error' = "ENOENT"
                /\ UNCHANGED <<disk, imgIdx>>
           ELSE /\ pc' = "images" /\ error' = error
                /\ disk' = writeFile(disk, htmlFilePath,
                                     [ disk[htmlFilePath] EXCEPT !.imgs = acc.content ])
                /\ imgIdx' = imgIdx + 1
  /\ UNCHANGED <<inputVars, queueVars, walkVars, downloads, genVars, outVars>>

opfName == join(epubDir, << N("content", ".opf") >>)
tocXhtmlName == join(epubDir, << N("toc", ".xhtml") >>)
tocNcxName == join(epubDir, << N("toc", ".ncx") >>)

\* for (const htmlFile of htmlFiles) zip.file(OEBPS/htmlFile, content read back)
RECURSIVE addHtmlFiles(_, _, _, _)
addHtmlFiles(z, files, k, d) ==
  IF k > Len(files) THEN [ zip |-> z, threw |-> FALSE ]
  ELSE LET fullHtmlPath == join(epubDir, files[k])
       IN IF ~existsSync(d, fullHtmlPath) THEN [ zip |-> z, threw |-> TRUE ]
          ELSE addHtmlFiles(zipFile(z, fullHtmlPath, d[fullHtmlPath]), files, k + 1, d)

\* processImages returned: uniqueImageFiles is built and the rewritten
\* chapters are added to the archive
AddHtmlFiles ==
  /\ pc = "images" /\ imgIdx > Len(htmlFiles)
  /\ uniqueImageFiles' = Append(uniqueOf(imageFiles), placeholderSrc)
  /\ LET r == addHtmlFiles(zip, htmlFiles, 1, disk)
     IN /\ zip' = r.zip
        /\ IF r.threw THEN pc' = "failed" /\ error' = "ENOENT"
           ELSE pc' = "genOpf" /\ error' = error
  /\ UNCHANGED <<inputVars, queueVars, disk, walkVars, imageVars, uuid, uuidCalls,
                 contentOpf, tocXhtml, tocNcx, outVars>>

\* uuidv4(), generateContentOpf, zip.file("OEBPS/content.opf").  Building a
\* document can throw (a RangeError of the string template, a TypeError on
\* malformed arguments).
GenerateContentOpf ==
  /\ pc = "genOpf"
  /\ \E id \in UUIDs, throws \in BOOLEAN :
       /\ uuid' = id /\ uuidCalls' = uuidCalls + 1
       /\ IF throws
          THEN /\ pc' = "failed" /\ error' = "opf"
               /\ UNCHANGED <<zip, contentOpf>>
          ELSE /\ pc' = "genTocXhtml" /\ error' = error
               /\ contentOpf' = << generateContentOpf(metadata, htmlFiles,
                                     uniqueImageFiles, coverImagePath,
                                     resourcePaths, id) >>
               /\ zip' = zipFile(zip, opfName, Text("content.opf"))
  /\ UNCHANGED <<inputVars, queueVars, disk, walkVars, imageVars, uniqueImageFiles,
                 tocXhtml, tocNcx, outVars>>

GenerateTocXhtml ==
  /\ pc = "genTocXhtml"
  /\ \E throws \in BOOLEAN :
       IF throws
       THEN /\ pc' = "failed" /\ error' = "toc.xhtml"
            /\ UNCHANGED <<zip, tocXhtml>>
       ELSE /\ pc' = "genTocNcx" /\ error' = error
            /\ tocXhtml' = << generateTocXhtml(htmlFiles, titles) >>
            /\ zip' = zipFile(zip, tocXhtmlName, Text("toc.xhtml"))
  /\ UNCHANGED <<inputVars, queueVars, disk, walkVars, imageVars, uniqueImageFiles,
                 uuid, uuidCalls, contentOpf, tocNcx, outVars>>

\* a toc.ncx step whose failure is logged and swallowed: the build goes on to
\* serialize and write the archive without the document
GenerateTocNcxSwallowing ==
  /\ pc = "genTocNcx"
  /\ \E throws \in BOOLEAN :
       IF throws
       THEN /\ pc' = "serialize" /\ error' = "toc.ncx"
            /\ UNCHANGED <<zip, tocNcx>>
       ELSE /\ pc' = "serialize" /\ error' = error
            /\ tocNcx' = << generateTocNcx(htmlFiles, titles, uuid) >>
            /\ zip' = zipFile(zip, tocNcxName, Text("toc.ncx"))
  /\ UNCHANGED <<inputVars, queueVars, disk, walkVars, imageVars, uniqueImageFiles,
                 uuid, uuidCalls, contentOpf, tocXhtml, outVars>>

GenerateTocNcx ==
  /\ pc = "genTocNcx"
  /\ \E throws \in BOOLEAN :
       IF throws
       THEN /\ pc' = "failed" /\ error' = "toc.ncx"
            /\ UNCHANGED <<zip, tocNcx>>
       ELSE /\ pc' = "serialize" /\ error' = error
            /\ tocNcx' = << generateTocNcx(htmlFiles, titles, uuid) >>
            /\ zip' = zipFile(zip, tocNcxName, Text("toc.ncx"))
  /\ UNCHANGED <<inputVars, queueVars, disk, walkVars, imageVars, uniqueImageFiles,
                 uuid, uuidCalls, contentOpf, tocXhtml, outVars>>

\* await zip.generateAsync({ type: "nodebuffer" })
Serialize ==
  /\ pc = "serialize"
  /\ \E throws \in BOOLEAN :
       IF throws
       THEN pc' = "failed" /\ error' = "generateAsync" /\ serialized' = serialized
       ELSE pc' = "write" /\ error' = error /\ serialized' = << zip >>
  /\ UNCHANGED <<inputVars, queueVars, disk, zip, walkVars, imageVars, genVars,
                 epubFile, validated, exitStatus>>

\* .then((content) => fs.writeFileSync(epubPath, content))
WriteEpub ==
  /\ pc = "write"
  /\ \E throws \in BOOLEAN :
       IF throws
       THEN pc' = "failed" /\ error' = "writeFileSync" /\ epubFile' = epubFile
       ELSE pc' = "validate" /\ error' = error /\ epubFile' = serialized
  /\ UNCHANGED <<inputVars, queueVars, disk, zip, walkVars, imageVars, genVars,
                 serialized, validated, exitStatus>>

\* a validateEpub without its catch, awaited by createEpub: a validator that
\* cannot run makes the build fail
ValidateEpubRethrowing ==
  /\ pc = "validate"
  /\ \E report \in { "passed", "reported", "failedToRun" } :
       /\ validated' = report
       /\ pc' = IF report = "failedToRun" THEN "failed" ELSE "done"
  /\ UNCHANGED <<inputVars, queueVars, disk, zip, walkVars, imageVars, genVars,
                 serialized, epubFile, error, exitStatus>>

\* validateEpub(epubPath): the validator runs on the written file; its report
\* or its failure is logged inside validateEpub
ValidateEpub ==
  /\ pc = "validate"
  /\ pc' = "done"
  /\ validated' \in { "passed", "reported", "failedToRun" }
  /\ UNCHANGED <<inputVars, queueVars, disk, zip, walkVars, imageVars, genVars,
                 serialized, epubFile, error, exitStatus>>

\* the script's last statement is createEpub(...).catch(console.error): a
\* rejection is logged there, a failure inside the try block was logged by
\* createEpub's own catch; nothing sets process.exitCode or calls
\* process.exit, so the process ends with status 0 once nothing is pending
ProcessExit ==
  /\ pc \in { "done", "failed", "rejected" }
  /\ Len(exitStatus) = 0
  /\ exitStatus' = << 0 >>
  /\ UNCHANGED <<pc, inputVars, queueVars, disk, zip, walkVars, imageVars, genVars,
                 serialized, epubFile, validated, error>>

Next ==
  \/ CreateEpubStart
  \/ CountAndPlaceholder
  \/ ConvertFile
  \/ ProcessImagesEnter
  \/ ImageStart
  \/ ImageSettle
  \/ ImageJoin
  \/ AddHtmlFiles
  \/ GenerateContentOpf
  \/ GenerateTocXhtml
  \/ GenerateTocNcx
  \/ Serialize
  \/ WriteEpub
  \/ ValidateEpub
  \/ ProcessExit

Spec == Init /\ [][Next]_vars

----------------------------------------------------------------------------
(* The document generators applied to arbitrary arguments *)

pngSrc == imagesHref(N("p", ".png"))
coverSrc == imagesHref(N("cover", ".jpg"))
GenHrefs == { << N("a", ".xhtml") >>, << N("s", ""), N("b", ".xhtml") >> }
GenImages == { pngSrc, coverSrc, placeholderSrc }
GenResources == { resourceA, resourceB }

hrefTitle(href) == chapterTitle(Last(href))

InitGen ==
  /\ pc = "pure"
  /\ htmlFiles \in SeqsUpTo(GenHrefs, MaxChapters)
  /\ titles = [ i \in 1..Len(htmlFiles) |-> hrefTitle(htmlFiles[i]) ]
  /\ uniqueImageFiles \in SeqsUpTo(GenImages, MaxImgs)
  /\ coverImagePath \in Covers
  /\ resourcePaths \in SeqsUpTo(GenResources, MaxResources)
  /\ uuid \in UUIDs
  /\ tree = {} /\ markdownFiles = <<>> /\ firstRun = <<>>
  /\ givenPath = <<>> /\ outputs = <<>> /\ chapters = <<>>
  /\ disk = emptyDisk /\ zip = <<>>
  /\ processedFiles = [ count |-> 0, total |-> 0 ]
  /\ taskIdx = 1 /\ convLog = <<>> /\ imgIdx = 1 /\ htmlContent = <<>>
  /\ downloads = <<>> /\ imageFiles = <<>> /\ results = <<>>
  /\ uuidCalls = 0 /\ contentOpf = <<>> /\ tocXhtml = <<>> /\ tocNcx = <<>>
  /\ serialized = <<>> /\ epubFile = <<>> /\ error = "none"
  /\ validated = "no" /\ exitStatus = <<>> /\ queue = <<>> /\ inflight = {} /\ dirIdx = 1

ApplyContentOpf ==
  /\ pc = "pure" /\ Len(contentOpf) = 0
  /\ contentOpf' = << generateContentOpf(metadata, htmlFiles, uniqueImageFiles,
                        coverImagePath, resourcePaths, uuid) >>
  /\ UNCHANGED <<pc, inputVars, queueVars, disk, zip, walkVars, imageVars,
                 uniqueImageFiles, uuid, uuidCalls, tocXhtml, tocNcx, outVars, error>>

ApplyTocNcx ==
  /\ pc = "pure" /\ Len(tocNcx) = 0
  /\ tocNcx' = << generateTocNcx(htmlFiles, titles, uuid) >>
  /\ UNCHANGED <<pc, inputVars, queueVars, disk, zip, walkVars, imageVars,
                 uniqueImageFiles, uuid, uuidCalls, contentOpf, tocXhtml, outVars, error>>

ApplyTocXhtml ==
  /\ pc = "pure" /\ Len(tocXhtml) = 0
  /\ tocXhtml' = << generateTocXhtml(htmlFiles, titles) >>
  /\ UNCHANGED <<pc, inputVars, queueVars, disk, zip, walkVars, imageVars,
                 uniqueImageFiles, uuid, uuidCalls, contentOpf, tocNcx, outVars, error>>

NextGen == ApplyContentOpf \/ ApplyTocNcx \/ ApplyTocXhtml

SpecGen == InitGen /\ [][NextGen]_vars

----------------------------------------------------------------------------
(* The queued processMarkdownFiles of src/unnamed/part_001, lines 659-736 *)

\* the concurrency argument of async.queue
concurrency == 15

\* the directories in the order the recursion enters them, each with the
\* epubDir of its call
RECURSIVE walkDirs(_, _, _)
RECURSIVE walkDirsIn(_, _, _, _)
walkDirsIn(markdownDir, dir, files, t) ==
  IF Len(files) = 0 THEN <<>>
  ELSE LET file == Head(files)
           filePath == Append(markdownDir, file)
           sub == IF isDirectory(filePath, t)
                  THEN walkDirs(filePath, Append(dir, file), t)
                  ELSE <<>>
       IN sub \o walkDirsIn(markdownDir, dir, Tail(files), t)
walkDirs(markdownDir, dir, t) ==
  << [ markdownDir |-> markdownDir, epubDir |-> dir ] >>
    \o walkDirsIn(markdownDir, dir, readdirSync(markdownDir, t), t)

dirs == walkDirs(<<>>, epubDir, tree)

\* htmlFileFullName.replace("OEBPS/", "")
queuedHref(htmlFileFullName) == replacePrefix(htmlFileFullName, epubDir)

\* the title of the queued variant: separators become " > " and the first
\* ".xhtml" is removed
RECURSIVE joinTitle(_, _)
joinTitle(rel, stripped) ==
  IF Len(rel) = 0 THEN ""
  ELSE LET name == Head(rel)
           strip == ~stripped /\ name[2] = ".xhtml"
           text == IF strip THEN name[1] ELSE name[1] \o name[2]
           rest == joinTitle(Tail(rel), stripped \/ strip)
       IN IF Len(rel) = 1 THEN text ELSE text \o " > " \o rest
queuedTitle(rel) == joinTitle(rel, FALSE)

coverEntryName == join(epubDir, imagesHref(N("cover", ".jpg")))

\* the loop over resourcePaths of addCoverAndResources; readFileSync of a
\* missing resource throws into the function's own catch
RECURSIVE addResources(_, _, _, _)
addResources(z, paths, k, readable) ==
  IF k > Len(paths) \/ ~readable THEN z
  ELSE addResources(zipFile(z, join(epubDir, imagesHref(Last(paths[k]))),
                            File("image", paths[k], <<>>)),
                    paths, k + 1, readable)

InitQueue ==
  /\ pc = "qdir"
  /\ tree \in Trees
  /\ coverImagePath = <<>> /\ resourcePaths = <<>> /\ markdownFiles = <<>>
  /\ firstRun = <<>>
  /\ givenPath = <<>> /\ outputs = <<>> /\ chapters = <<>>
  /\ disk = emptyDisk
  /\ zip = initializeEpubStructure(<<>>)
  /\ htmlFiles = <<>> /\ titles = <<>>
  /\ processedFiles = [ count |-> 0, total |-> countMarkdownFiles(<<>>, tree) ]
  /\ taskIdx = 1 /\ convLog = <<>> /\ imgIdx = 1 /\ htmlContent = <<>>
  /\ downloads = <<>> /\ imageFiles = <<>> /\ results = <<>>
  /\ uniqueImageFiles = <<>> /\ uuid = "" /\ uuidCalls = 0
  /\ contentOpf = <<>> /\ tocXhtml = <<>> /\ tocNcx = <<>>
  /\ serialized = <<>> /\ epubFile = <<>> /\ error = "none"
  /\ validated = "no" /\ exitStatus = <<>> /\ queue = <<>> /\ inflight = {} /\ dirIdx = 1

\* one call of processMarkdownFiles up to convertQueue.push(markdownFiles)
QueueEnterDir ==
  /\ pc = "qdir" /\ dirIdx <= Len(dirs)
  /\ LET d == dirs[dirIdx]
         mdFiles == markdownFilesOf(readdirSync(d.markdownDir, tree))
     IN queue' = tasksOfDir(d.markdownDir, d.epubDir, mdFiles)
  /\ disk' = writeFile(disk, placeholderPath, File("svg", <<>>, <<>>))
  /\ zip' = zipFile(zip, placeholderPath, File("svg", <<>>, <<>>))
  /\ pc' = "qrun"
  /\ UNCHANGED <<inputVars, inflight, dirIdx, walkVars, imageVars, genVars,
                 outVars, error>>

\* the queue starts its next task while fewer than `concurrency` workers run
QueueStart ==
  /\ pc = "qrun" /\ Len(queue) > 0 /\ Cardinality(inflight) < concurrency
  /\ inflight' = inflight \cup { Head(queue) }
  /\ queue' = Tail(queue)
  /\ UNCHANGED <<pc, inputVars, dirIdx, disk, zip, walkVars, imageVars, genVars,
                 outVars, error>>

\* a worker runs from the end of its conversion to callback()
QueueFinish ==
  /\ pc = "qrun"
  /\ \E task \in inflight :
       LET filePath == Append(task.markdownDir, task.file)
           htmlFilename == htmlFilenameOf(task.file)
           htmlFilePath == Append(task.epubDir, htmlFilename)
       IN \E outcome \in outcomesFor(filePath, tree) :
          \E content \in IF outcome = "ok" THEN Contents ELSE { <<>> } :
            LET r == convertMarkdownToHtmlPandoc(disk, filePath, htmlFilePath,
                                                  outcome, content)
            IN /\ disk' = r.disk
               /\ inflight' = inflight \ { task }
               /\ convLog' = Append(convLog, [ source |-> filePath,
                                               path |-> htmlFilePath,
                                               outcome |-> outcome, content |-> content ])
               /\ IF r.threw
                  THEN UNCHANGED <<zip, htmlFiles, titles, processedFiles>>
                  ELSE /\ zip' = zipFile(zip, htmlFilePath, r.disk[htmlFilePath])
                       /\ htmlFiles' = Append(htmlFiles, queuedHref(htmlFilePath))
                       /\ titles' = Append(titles, queuedTitle(queuedHref(htmlFilePath)))
                       /\ processedFiles' = [ processedFiles EXCEPT !.count = @ + 1 ]
  /\ UNCHANGED <<pc, inputVars, queue, dirIdx, taskIdx, imageVars, genVars,
                 outVars, error>>

\* drain: the queue is empty and idle; the walk goes on with the next directory
QueueDrain ==
  /\ pc = "qrun" /\ Len(queue) = 0 /\ inflight = {}
  /\ pc' = "qdir" /\ dirIdx' = dirIdx + 1
  /\ UNCHANGED <<inputVars, queue, inflight, disk, zip, walkVars, imageVars,
                 genVars, outVars, error>>

\* the outermost call returns
QueueDone ==
  /\ pc = "qdir" /\ dirIdx > Len(dirs)
  /\ pc' = "qdone"
  /\ UNCHANGED <<inputVars, queueVars, disk, zip, walkVars, imageVars, genVars,
                 outVars, error>>

\* processImages of part_001 (lines 841-919), one chapter: the file is read
QueueImageRead ==
  /\ pc = "qdone" /\ imgIdx <= Len(htmlFiles)
  /\ LET htmlFilePath == join(epubDir, htmlFiles[imgIdx])
     IN IF ~existsSync(disk, htmlFilePath)
        THEN pc' = "failed" /\ error' = "ENOENT" /\ htmlContent' = htmlContent
        ELSE pc' = "qimage" /\ error' = error
             /\ htmlContent' = disk[htmlFilePath].imgs
  /\ taskIdx' = 1
  /\ UNCHANGED <<inputVars, queueVars, disk, zip, htmlFiles, titles, processedFiles,
                 convLog, imgIdx, downloads, imageFiles, results, genVars, outVars>>

\* one <img> of the chapter: the download is awaited before the next match;
\* new URL(src) stands outside the try block
QueueImage ==
  /\ pc = "qimage" /\ taskIdx <= Len(htmlContent)
  /\ LET src == htmlContent[taskIdx]
         absoluteImagePath == join(epubDir, src)
     IN IF startsWithHttp(src) /\ ~validUrl(src)
        THEN /\ pc' = "failed" /\ error' = "ERR_INVALID_URL"
             /\ UNCHANGED <<disk, zip, htmlContent, imageFiles, taskIdx>>
        ELSE /\ pc' = pc /\ error' = error /\ taskIdx' = taskIdx + 1
             /\ IF startsWithHttp(src)
                THEN \E chain \in FetchChains :
                       LET r == downloadImage(src, imageDestPath(src), chain)
                           localImagePath == relativeToEpubDir(r.path)
                       IN IF r.status = "resolved"
                          THEN /\ disk' = writeFile(disk, r.path, File("image", src, <<>>))
                               /\ htmlContent' = replaceFirst(htmlContent, src, localImagePath)
                               /\ imageFiles' = Append(imageFiles, localImagePath)
                               /\ zip' = zipFile(zip, localImagePath,
                                                 File("image", src, <<>>))
                          ELSE /\ htmlContent' = replaceFirst(htmlContent, src, placeholderSrc)
                               /\ UNCHANGED <<disk, zip, imageFiles>>
                ELSE IF existsSync(disk, absoluteImagePath)
                THEN /\ imageFiles' = Append(imageFiles, src)
                     /\ zip' = zipFile(zip, absoluteImagePath, disk[absoluteImagePath])
                     /\ UNCHANGED <<disk, htmlContent>>
                ELSE /\ htmlContent' = replaceFirst(htmlContent, src, placeholderSrc)
                     /\ UNCHANGED <<disk, zip, imageFiles>>
  /\ UNCHANGED <<inputVars, queueVars, htmlFiles, titles, processedFiles, convLog,
                 imgIdx, downloads, results, genVars, outVars>>

\* fs.promises.writeFile(htmlFilePath, htmlContent): the rewritten chapter goes
\* to the disk
QueueImageWrite ==
  /\ pc = "qimage" /\ taskIdx > Len(htmlContent)
  /\ LET htmlFilePath == join(epubDir, htmlFiles[imgIdx])
     IN disk' = writeFile(disk, htmlFilePath,
                          [ disk[htmlFilePath] EXCEPT !.imgs = htmlContent ])
  /\ imgIdx' = imgIdx + 1 /\ pc' = "qdone"
  /\ UNCHANGED <<inputVars, queueVars, zip, walkVars, htmlContent, downloads,
                 imageFiles, results, genVars, outVars, error>>

\* generateContentOpf of part_001, lines 472-533: no addedFiles set
generateContentOpfQueued(meta, files, images, cover, resources, id) ==
  LET coverItem == IF Len(cover) = 0 THEN <<>>
                   ELSE << Item("cover-image", imagesHref(Last(cover)),
                                "image/jpeg", "cover-image") >>
      imgs == [ i \in 1..Len(images) |->
                  Item(imageId(i - 1), images[i], getMediaTypeWithoutSvg(images[i]), "") ]
      res == [ i \in 1..Len(resources) |->
                 Item(resourceId(i - 1), imagesHref(Last(resources[i])),
                      getMediaTypeWithoutSvg(resources[i]), "") ]
  IN [ title |-> meta.title, creator |-> meta.author, identifier |-> id,
       manifest |-> chapterItems(files) \o coverItem \o imgs \o res \o fixedItems,
       spine |-> spineOf(files) ]

\* createEpub of part_001, lines 959-985: addCoverAndResources, the three
\* documents, generateAsync and writeFileSync; a throw of any of them goes
\* to the catch block
QueueWriteEpub ==
  /\ pc = "qdone" /\ imgIdx > Len(htmlFiles)
  /\ \E id \in UUIDs, throws \in BOOLEAN :
       IF throws
       THEN /\ pc' = "failed" /\ error' = "EPUB"
            /\ UNCHANGED <<zip, genVars, serialized, epubFile>>
       ELSE LET z0 == IF Len(coverImagePath) > 0
                      THEN zipFile(zip, coverEntryName, File("image", coverImagePath, <<>>))
                      ELSE zip
                z1 == addResources(z0, resourcePaths, 1, TRUE)
                z2 == zipFile(z1, opfName, Text("content.opf"))
                z3 == zipFile(z2, tocXhtmlName, Text("toc.xhtml"))
                z4 == zipFile(z3, tocNcxName, Text("toc.ncx"))
            IN /\ uuid' = id /\ uuidCalls' = uuidCalls + 1
               /\ uniqueImageFiles' = uniqueImageFiles
               /\ contentOpf' = << generateContentOpfQueued(metadata, htmlFiles,
                                     imageFiles, coverImagePath, resourcePaths, id) >>
               /\ tocXhtml' = << generateTocXhtml(htmlFiles, titles) >>
               /\ tocNcx' = << generateTocNcx(htmlFiles, titles, id) >>
               /\ zip' = z4 /\ serialized' = << z4 >> /\ epubFile' = << z4 >>
               /\ pc' = "qwritten" /\ error' = error
  /\ UNCHANGED <<inputVars, queueVars, disk, walkVars, imageVars, validated,
                 exitStatus>>

NextQueue ==
  \/ QueueEnterDir \/ QueueStart \/ QueueFinish \/ QueueDrain \/ QueueDone
  \/ QueueImageRead \/ QueueImage \/ QueueImageWrite \/ QueueWriteEpub

SpecQueue == InitQueue /\ [][NextQueue]_vars

----------------------------------------------------------------------------
(* createEpubFromMarkdown of src/markedZip.js, lines 322-358 *)

MarkedInputs ==
  { << N("a", ".md") >>, << N("b", ".md") >>, << N("s", ""), N("a", ".md") >> }

markedChapterItems(files) ==
  [ i \in 1..Len(files) |->
      Item(chapterId(i - 1), join(epubDir, files[i]), "application/xhtml+xml", "") ]

RECURSIVE markedResourceItems(_, _)
markedResourceItems(paths, index) ==
  IF index >= Len(paths) THEN <<>>
  ELSE << Item(resourceId(index), imagesHref(Last(paths[index + 1])), "image/jpeg", "") >>
         \o markedResourceItems(paths, index + 1)

\* generateContentOpf of markedZip.js, lines 227-271; the identifier is
\* new Date().getTime()
generateContentOpfMarked(meta, files, cover, resources, now) ==
  LET coverItem == IF Len(cover) = 0 THEN <<>>
                   ELSE << Item("cover-image", imagesHref(Last(cover)),
                                "image/jpeg", "cover-image") >>
  IN [ title |-> meta.title, creator |-> meta.author, identifier |-> now,
       manifest |-> markedChapterItems(files) \o coverItem
                      \o markedResourceItems(resources, 0) \o fixedItems,
       spine |-> spineOf(files) ]

InitMarked ==
  /\ pc = "mstart"
  /\ markdownFiles \in SeqsUpTo(MarkedInputs, MaxFiles)
  /\ firstRun = <<>>
  /\ givenPath = <<>> /\ outputs = <<>> /\ chapters = <<>>
  /\ titles = [ i \in 1..Len(markdownFiles) |-> "title " \o ToString(i) ]
  /\ coverImagePath \in Covers
  /\ resourcePaths \in MainResources
  /\ disk \in InitialDisks
  /\ tree = {}
  /\ zip = <<>> /\ htmlFiles = <<>>
  /\ processedFiles = [ count |-> 0, total |-> 0 ]
  /\ taskIdx = 1 /\ convLog = <<>> /\ imgIdx = 1 /\ htmlContent = <<>>
  /\ downloads = <<>> /\ imageFiles = <<>> /\ results = <<>>
  /\ uniqueImageFiles = <<>> /\ uuid = "" /\ uuidCalls = 0
  /\ contentOpf = <<>> /\ tocXhtml = <<>> /\ tocNcx = <<>>
  /\ serialized = <<>> /\ epubFile = <<>> /\ error = "none"
  /\ validated = "no" /\ exitStatus = <<>> /\ queue = <<>> /\ inflight = {} /\ dirIdx = 1

\* new JSZip(), initializeEpubStructure(zip), ensureDirExists("OEBPS")
MarkedStart ==
  /\ pc = "mstart"
  /\ zip' = initializeEpubStructureMarked(<<>>)
  /\ \E fsError \in BOOLEAN :
       IF fsError
       THEN pc' = "rejected" /\ error' = "EACCES" /\ disk' = disk
       ELSE pc' = "mconvert" /\ error' = error /\ disk' = cleanDirectory(disk, epubDir)
  /\ UNCHANGED <<inputVars, queueVars, walkVars, imageVars, genVars, outVars>>

\* `${path.basename(file, ".md")}.html`
markedHtmlFilename(file) == withExt(basenameExt(Last(file), ".md"), ".html")

\* one iteration of `for (const file of markdownFiles)`: the converter of
\* lines 200-208 rethrows, which rejects createEpubFromMarkdown
MarkedConvert ==
  /\ pc = "mconvert" /\ taskIdx <= Len(markdownFiles)
  /\ LET file == markdownFiles[taskIdx]
         htmlFilePath == Append(epubDir, markedHtmlFilename(file))
     IN \E outcome \in { "ok", "failed" } :
        \E content \in IF outcome = "ok" THEN Contents ELSE { <<>> } :
          /\ convLog' = Append(convLog, [ source |-> file, path |-> htmlFilePath,
                                          outcome |-> outcome, content |-> content ])
          /\ IF outcome = "failed"
             THEN /\ pc' = "rejected" /\ error' = "pandoc"
                  /\ UNCHANGED <<disk, zip, htmlFiles, taskIdx>>
             ELSE /\ pc' = pc /\ error' = error
                  /\ disk' = writeFile(disk, htmlFilePath, File("html", file, content))
                  /\ zip' = zipFile(zip, htmlFilePath, File("html", file, content))
                  /\ htmlFiles' = Append(htmlFiles, htmlFilePath)
                  /\ taskIdx' = taskIdx + 1
  /\ UNCHANGED <<inputVars, queueVars, titles, processedFiles, imageVars, genVars,
                 outVars>>

\* addCoverAndResources(zip, coverImagePath, resourcePaths)
MarkedAddCoverAndResources ==
  /\ pc = "mconvert" /\ taskIdx > Len(markdownFiles)
  /\ \E coverReadable \in BOOLEAN, resourcesReadable \in BOOLEAN :
       LET z1 == IF Len(coverImagePath) > 0 /\ coverReadable
                 THEN zipFile(zip, coverEntryName, File("image", coverImagePath, <<>>))
                 ELSE zip
       IN zip' = IF Len(coverImagePath) > 0 /\ ~coverReadable THEN zip
                 ELSE addResources(z1, resourcePaths, 1, resourcesReadable)
  /\ pc' = "mgenerate"
  /\ UNCHANGED <<inputVars, queueVars, disk, walkVars, imageVars, genVars, outVars,
                 error>>

\* generateContentOpf and generateTocXhtml and their zip.file calls
MarkedGenerate ==
  /\ pc = "mgenerate"
  /\ contentOpf' = << generateContentOpfMarked(metadata, htmlFiles, coverImagePath,
                        resourcePaths, "time") >>
  /\ tocXhtml' = << generateTocXhtml(htmlFiles, titles) >>
  /\ zip' = zipFile(zipFile(zip, opfName, Text("content.opf")),
                    tocXhtmlName, Text("toc.xhtml"))
  /\ pc' = "mwrite"
  /\ UNCHANGED <<inputVars, queueVars, disk, walkVars, imageVars, uniqueImageFiles,
                 uuid, uuidCalls, tocNcx, outVars, error>>

\* zip.generateAsync(...).then(write).catch(log)
MarkedWrite ==
  /\ pc = "mwrite"
  /\ \E throws \in BOOLEAN :
       IF throws
       THEN pc' = "failed" /\ error' = "generateAsync" /\ UNCHANGED <<serialized, epubFile>>
       ELSE pc' = "done" /\ error' = error /\ serialized' = << zip >> /\ epubFile' = << zip >>
  /\ UNCHANGED <<inputVars, queueVars, disk, zip, walkVars, imageVars, genVars,
                 validated, exitStatus>>

NextMarked ==
  \/ MarkedStart
  \/ MarkedConvert
  \/ MarkedAddCoverAndResources
  \/ MarkedGenerate
  \/ MarkedWrite

SpecMarkedZip == InitMarked /\ [][NextMarked]_vars

----------------------------------------------------------------------------
(* getMediaType applied to a file path *)

MediaPaths ==
  { dir \o << N(stem, ext) >> :
      dir \in { <<>>, << N("images", "") >> }, stem \in { "p", "cover" },
      ext \in { ".jpg", ".jpeg", ".png", ".gif", ".webp", ".svg", ".JPG", ".JPEG",
                ".PNG", ".Gif", ".WebP", ".SVG", ".bmp", ".txt", "" } }

\* the state of the scripts that do not run
Idle ==
  /\ tree = {} /\ coverImagePath = <<>> /\ resourcePaths = <<>>
  /\ markdownFiles = <<>> /\ firstRun = <<>> /\ disk = emptyDisk
  /\ Fresh

InitMediaType ==
  /\ pc = "pure"
  /\ givenPath \in MediaPaths
  /\ outputs = <<>> /\ chapters = <<>>
  /\ Idle

Output(fn, file, value) == [ fn |-> fn, file |-> file, value |-> value ]
applied(fn, file) == \E i \in 1..Len(outputs) : outputs[i].fn = fn /\ outputs[i].file = file

ApplyGetMediaType ==
  /\ pc = "pure" /\ ~applied("getMediaType", "src/mdToEpub.js")
  /\ outputs' = Append(outputs, Output("getMediaType", "src/mdToEpub.js",
                                       getMediaType(givenPath)))
  /\ UNCHANGED <<pc, tree, coverImagePath, resourcePaths, markdownFiles, firstRun,
                 givenPath, chapters, queueVars, disk, zip, walkVars, imageVars,
                 genVars, outVars, error>>

ApplyGetMediaTypeWithoutSvg ==
  /\ pc = "pure" /\ ~applied("getMediaType", "src/unnamed/part_001")
  /\ outputs' = Append(outputs, Output("getMediaType", "src/unnamed/part_001",
                                       getMediaTypeWithoutSvg(givenPath)))
  /\ UNCHANGED <<pc, tree, coverImagePath, resourcePaths, markdownFiles, firstRun,
                 givenPath, chapters, queueVars, disk, zip, walkVars, imageVars,
                 genVars, outVars, error>>

NextMediaType == ApplyGetMediaType \/ ApplyGetMediaTypeWithoutSvg

SpecMediaType == InitMediaType /\ [][NextMediaType]_vars

----------------------------------------------------------------------------
(* The chapter title computed from a relative file path *)

\* .replace(/_/g, " ") on the names of TitlePaths
replaceUnderscores(text) ==
  CASE text = "my_file" -> "my file"
    [] text = "sub_dir" -> "sub dir"
    [] OTHER -> text

\* .replace(/\//g, " > ").replace(/\\/g, " > ") on the joined names
RECURSIVE separatorsToArrows(_)
separatorsToArrows(texts) ==
  IF Len(texts) = 0 THEN ""
  ELSE IF Len(texts) = 1 THEN Head(texts)
  ELSE Head(texts) \o " > " \o separatorsToArrows(Tail(texts))

\* src/index.js: the title is made from path.relative(fullRepoDir, filePath)
indexTitle(relativePath) ==
  separatorsToArrows([ i \in 1..Len(relativePath) |->
                         replaceUnderscores(relativePath[i][1]) \o relativePath[i][2] ])

\* src/repoTomd.js: path.join("markdown", repoName)
markdownBase == << N("markdown", ""), N("repo", "") >>
repoTomdCodeExtensions ==
  { ".js", ".cjs", ".ts", ".py", ".jsx", ".tsx", ".rs", ".vue", ".editorconfig" }
\* src/repoTomd.js: the title is made from the path of the markdown file written
repoTomdTitle(relativePath) ==
  LET file == Last(relativePath)
      baseDir == join(markdownBase, SubSeq(relativePath, 1, Len(relativePath) - 1))
      markdownPath == Append(baseDir, withExt(basenameExt(file, file[2]), ".md"))
      shown == replacePrefix(markdownPath, markdownBase)
  IN separatorsToArrows([ i \in 1..Len(shown) |->
                            replaceUnderscores(shown[i][1]) \o shown[i][2] ])

\* src/unnamed/part_001: the title is made from the path of the chapter file
queuedTitleOf(relativePath) ==
  LET file == Last(relativePath)
      dir == join(epubDir, SubSeq(relativePath, 1, Len(relativePath) - 1))
      htmlFileFullName == Append(dir, htmlFilenameOf(file))
  IN queuedTitle(queuedHref(htmlFileFullName))

indexCodeExtensions == { ".js", ".ts", ".py", ".jsx", ".tsx", ".rs" }

TitlePaths ==
  { dir \o << N(stem, ext) >> :
      dir \in { <<>>, << N("src", "") >>, << N("sub_dir", "") >>,
                << N("src", ""), N("lib", "") >> },
      stem \in { "main", "my_file", "index" },
      ext \in { ".js", ".md", ".py" } }

InitTitle ==
  /\ pc = "pure"
  /\ givenPath \in TitlePaths
  /\ outputs = <<>> /\ chapters = <<>>
  /\ Idle

ApplyIndexTitle ==
  /\ pc = "pure" /\ ~applied("chapterTitle", "src/index.js")
  /\ extname(givenPath) \in indexCodeExtensions \/ extname(givenPath) = ".md"
  /\ outputs' = Append(outputs, Output("chapterTitle", "src/index.js",
                                       indexTitle(givenPath)))
  /\ UNCHANGED <<pc, tree, coverImagePath, resourcePaths, markdownFiles, firstRun,
                 givenPath, chapters, queueVars, disk, zip, walkVars, imageVars,
                 genVars, outVars, error>>

ApplyRepoTomdTitle ==
  /\ pc = "pure" /\ ~applied("chapterTitle", "src/repoTomd.js")
  /\ extname(givenPath) \in repoTomdCodeExtensions \/ extname(givenPath) = ".md"
  /\ outputs' = Append(outputs, Output("chapterTitle", "src/repoTomd.js",
                                       repoTomdTitle(givenPath)))
  /\ UNCHANGED <<pc, tree, coverImagePath, resourcePaths, markdownFiles, firstRun,
                 givenPath, chapters, queueVars, disk, zip, walkVars, imageVars,
                 genVars, outVars, error>>

ApplyQueuedTitle ==
  /\ pc = "pure" /\ ~applied("chapterTitle", "src/unnamed/part_001")
  /\ extname(givenPath) = ".md"
  /\ outputs' = Append(outputs, Output("chapterTitle", "src/unnamed/part_001",
                                       queuedTitleOf(givenPath)))
  /\ UNCHANGED <<pc, tree, coverImagePath, resourcePaths, markdownFiles, firstRun,
                 givenPath, chapters, queueVars, disk, zip, walkVars, imageVars,
                 genVars, outVars, error>>

NextTitle == ApplyIndexTitle \/ ApplyRepoTomdTitle \/ ApplyQueuedTitle

SpecTitle == InitTitle /\ [][NextTitle]_vars

----------------------------------------------------------------------------
(* src/index.js: the walk of the cloned repository *)

MaxRepoFiles == 2

\* the order in which fs.readdirSync lists the names of a directory
RepoNameOrder ==
  << N(".eslintrc", ".js"), N("a", ".js"), N("b", ".md"), N("c", ".txt"),
     N("d", ".json"), N("e", ".lock"), N("lib", ""), N("node_modules", "") >>
RepoPaths ==
  { Append(dir, file) :
      dir \in { <<>>, << N("lib", "") >>, << N("node_modules", "") >> },
      file \in { N(".eslintrc", ".js"), N("a", ".js"), N("b", ".md"), N("c", ".txt"),
                 N("d", ".json"), N("e", ".lock") } }
RepoTrees == { t \in SUBSET RepoPaths : Cardinality(t) <= MaxRepoFiles }

readRepoDir(dir, t) ==
  SelectSeq(RepoNameOrder, LAMBDA n : \E p \in t : IsPrefix(Append(dir, n), p))

\* file.startsWith(".")
startsWithDot(file) == file[1] = ".eslintrc"

excludeDirs == { N("node_modules", ""), N(".git", "") }
excludeFiles == { N(".gitignore", "") }
excludeExtensions == { ".lock", ".toml", ".yaml", ".yml" }
shouldExclude(file) ==
  \/ startsWithDot(file)
  \/ file \in excludeDirs
  \/ file \in excludeFiles
  \/ file[2] \in excludeExtensions

Chapter(relativePath) == [ title |-> indexTitle(relativePath), file |-> relativePath ]

\* lines 69-99
RECURSIVE processFilesImproved(_, _)
RECURSIVE processEntries(_, _, _)
processEntries(dir, files, t) ==
  IF Len(files) = 0 THEN <<>>
  ELSE LET file == Head(files)
           filePath == Append(dir, file)
           here == IF isDirectory(filePath, t) THEN processFilesImproved(filePath, t)
                   ELSE IF file[2] \in indexCodeExtensions \/ file[2] = ".md"
                        THEN << Chapter(filePath) >>
                        ELSE <<>>
       IN here \o processEntries(dir, Tail(files), t)
processFilesImproved(dir, t) == processEntries(dir, readRepoDir(dir, t), t)

\* lines 253-298
RECURSIVE processFilesImprovedExcluding(_, _)
RECURSIVE processEntriesExcluding(_, _, _)
processEntriesExcluding(dir, files, t) ==
  IF Len(files) = 0 THEN <<>>
  ELSE LET file == Head(files)
           filePath == Append(dir, file)
           here == IF shouldExclude(file) THEN <<>>
                   ELSE IF isDirectory(filePath, t)
                        THEN processFilesImprovedExcluding(filePath, t)
                        ELSE << Chapter(filePath) >>
       IN here \o processEntriesExcluding(dir, Tail(files), t)
processFilesImprovedExcluding(dir, t) ==
  processEntriesExcluding(dir, readRepoDir(dir, t), t)

InitIndex ==
  /\ pc = "index"
  /\ tree \in RepoTrees
  /\ givenPath = <<>> /\ outputs = <<>> /\ chapters = <<>>
  /\ coverImagePath = <<>> /\ resourcePaths = <<>>
  /\ markdownFiles = <<>> /\ firstRun = <<>> /\ disk = emptyDisk
  /\ Fresh

\* main of lines 165-190: processFilesImproved(fullRepoDir, chapters, fullRepoDir)
ProcessFilesImproved ==
  /\ pc = "index"
  /\ chapters' = processFilesImproved(<<>>, tree)
  /\ pc' = "walked"
  /\ UNCHANGED <<tree, coverImagePath, resourcePaths, markdownFiles, firstRun,
                 givenPath, outputs, queueVars, disk, zip, walkVars, imageVars,
                 genVars, outVars, error>>

\* main of lines 374-400
ProcessFilesImprovedExcluding ==
  /\ pc = "index"
  /\ chapters' = processFilesImprovedExcluding(<<>>, tree)
  /\ pc' = "walkedExcluding"
  /\ UNCHANGED <<tree, coverImagePath, resourcePaths, markdownFiles, firstRun,
                 givenPath, outputs, queueVars, disk, zip, walkVars, imageVars,
                 genVars, outVars, error>>

NextIndex == ProcessFilesImproved \/ ProcessFilesImprovedExcluding

SpecIndex == InitIndex /\ [][NextIndex]_vars

----------------------------------------------------------------------------
(* downloadImage applied to a URL and the responses of the servers *)

MaxHops == 2

noExtensionUrl == << N("http:", ""), N("", ""), N("h", ""), N("q", "") >>
\* a Location header that holds a path only
relativeLocation == << N("p", ".png") >>

DownloadResponses ==
  { Response("response", 200, "image/png", <<>>),
    Response("response", 200, "image/svg+xml", <<>>),
    Response("response", 200, "text/html", <<>>),
    Response("response", 200, "", <<>>),
    Response("response", 404, "", <<>>),
    Response("response", 302, "", <<>>),
    Response("error", 0, "", <<>>),
    Response("timeout", 0, "", <<>>) }

\* up to n redirects, each with a Location header, then a last response
RECURSIVE RedirectChains(_)
RedirectChains(n) ==
  IF n = 0 THEN { << r >> : r \in DownloadResponses }
  ELSE RedirectChains(n - 1)
         \cup { << redirectTo(location) >> \o c :
                  location \in { httpUrl, noExtensionUrl, relativeLocation },
                  c \in RedirectChains(n - 1) }

InitDownload ==
  /\ pc = "pure"
  /\ givenPath \in { httpUrl, noExtensionUrl }
  /\ outputs = <<>> /\ chapters = <<>>
  /\ Idle

\* downloadImage(src, imageDestPath) as processImages calls it
ApplyDownloadImage ==
  /\ pc = "pure" /\ outputs = <<>>
  /\ \E chain \in RedirectChains(MaxHops) :
       outputs' = << [ fn |-> "downloadImage", file |-> "src/mdToEpub.js",
                       chain |-> chain,
                       value |-> downloadImage(givenPath, imageDestPath(givenPath),
                                               chain) ] >>
  /\ UNCHANGED <<pc, tree, coverImagePath, resourcePaths, markdownFiles, firstRun,
                 givenPath, chapters, queueVars, disk, zip, walkVars, imageVars,
                 genVars, outVars, error>>

NextDownload == ApplyDownloadImage

SpecDownload == InitDownload /\ [][NextDownload]_vars

----------------------------------------------------------------------------
(* createEpub on a markdownDir that holds a directory named d.md *)

MdDirPaths ==
  { << N("d", ".md"), N("n", ".txt") >>, << N("d", ".md"), N("a", ".md") >> }
MdDirTrees ==
  { t \in SUBSET (AllPaths \cup MdDirPaths) :
      Cardinality(t) <= MaxFiles /\ t \cap MdDirPaths # {} }

InitMdDir ==
  /\ pc = "start"
  /\ tree \in MdDirTrees
  /\ coverImagePath \in Covers
  /\ resourcePaths \in MainResources
  /\ markdownFiles = <<>> /\ firstRun = <<>>
  /\ givenPath = <<>> /\ outputs = <<>> /\ chapters = <<>>
  /\ disk \in InitialDisks
  /\ Fresh

SpecMdDir == InitMdDir /\ [][Next]_vars

----------------------------------------------------------------------------
(* createEpub(markdownDir, epubPath, metadata) of src/unnamed/part_001,    *)
(* lines 203-254                                                           *)

\* an argument of a call: a string, a list of paths, or a parameter that got
\* no argument
Arg(kind, value) == [ kind |-> kind, value |-> value ]
undefined == Arg("undefined", "")

\* processMarkdownFiles of lines 203-221: the names of a directory in the
\* order of readdirSync, a directory entered where it is listed
RECURSIVE earlyTasks(_, _, _)
RECURSIVE earlyTasksOf(_, _, _, _)
earlyTasksOf(markdownDir, dir, files, t) ==
  IF Len(files) = 0 THEN <<>>
  ELSE LET file == Head(files)
           filePath == Append(markdownDir, file)
           here == IF isDirectory(filePath, t)
                   THEN earlyTasks(filePath, Append(dir, file), t)
                   ELSE IF file[2] = ".md"
                        THEN << [ markdownDir |-> markdownDir, epubDir |-> dir,
                                  file |-> file ] >>
                        ELSE <<>>
       IN here \o earlyTasksOf(markdownDir, dir, Tail(files), t)
earlyTasks(markdownDir, dir, t) ==
  earlyTasksOf(markdownDir, dir, readdirSync(markdownDir, t), t)

\* generateContentOpf of lines 61-117 with its five parameters in order;
\* resourcePaths.forEach throws a TypeError when resourcePaths is undefined
generateContentOpfEarly(meta, files, cover, resources, id) ==
  LET coverImageName == IF cover.kind = "string" THEN N(cover.value, "")
                        ELSE Last(cover.value)
      coverItem == IF cover.kind = "undefined" THEN <<>>
                   ELSE << Item("cover-image", imagesHref(coverImageName),
                                "image/jpeg", "cover-image") >>
      res == IF resources.kind = "undefined" THEN <<>>
             ELSE [ i \in 1..Len(resources.value) |->
                      Item(resourceId(i - 1), imagesHref(Last(resources.value[i])),
                           "image/jpeg", "") ]
  IN [ threw |-> resources.kind = "undefined",
       doc |-> [ title |-> meta.title, creator |-> meta.author,
                 identifier |-> IF id.kind = "undefined" THEN "undefined" ELSE id.value,
                 manifest |-> chapterItems(files) \o coverItem \o res \o fixedItems,
                 spine |-> spineOf(files) ] ]

InitEarly ==
  /\ pc = "early"
  /\ tree \in Trees
  /\ coverImagePath = <<>> /\ resourcePaths = <<>>
  /\ markdownFiles = <<>> /\ firstRun = <<>>
  /\ givenPath = <<>> /\ outputs = <<>> /\ chapters = <<>>
  /\ disk \in InitialDisks
  /\ Fresh

\* new JSZip(), initializeEpubStructure, ensureDirExists(epubDir)
EarlyStart ==
  /\ pc = "early"
  /\ zip' = initializeEpubStructure(<<>>)
  /\ disk' = cleanDirectory(disk, epubDir)
  /\ pc' = "ewalk"
  /\ UNCHANGED <<inputVars, queueVars, walkVars, imageVars, genVars, outVars, error>>

\* one Markdown file of processMarkdownFiles: the converter of lines 21-42
\* rethrows, and nothing catches it in createEpub
EarlyConvert ==
  /\ pc = "ewalk" /\ taskIdx <= Len(earlyTasks(<<>>, epubDir, tree))
  /\ LET task == earlyTasks(<<>>, epubDir, tree)[taskIdx]
         filePath == Append(task.markdownDir, task.file)
         htmlFilename == htmlFilenameOf(task.file)
         htmlFilePath == Append(task.epubDir, htmlFilename)
     IN \E outcome \in { "ok", "failed" } :
        \E content \in IF outcome = "ok" THEN Contents ELSE { <<>> } :
          /\ convLog' = Append(convLog, [ source |-> filePath, path |-> htmlFilePath,
                                          outcome |-> outcome, content |-> content ])
          /\ IF outcome = "ok"
             THEN /\ disk' = writeFile(disk, htmlFilePath, File("html", filePath, content))
                  /\ htmlFiles' = Append(htmlFiles, replacePrefix(htmlFilePath, task.epubDir))
                  /\ titles' = Append(titles, basenameExt(task.file, ".md")[1])
                  /\ pc' = pc /\ error' = error
             ELSE /\ pc' = "rejected" /\ error' = "pandoc"
                  /\ UNCHANGED <<disk, htmlFiles, titles>>
  /\ taskIdx' = taskIdx + 1
  /\ UNCHANGED <<inputVars, queueVars, zip, processedFiles, imageVars, genVars, outVars>>

\* uuidv4() and generateContentOpf(metadata, htmlFiles, uuid): the third
\* argument takes the place of coverImagePath, resourcePaths and uuid get none.
\* The statements after a call that returned go on at "etoc".
EarlyGenerate ==
  /\ pc = "ewalk" /\ taskIdx > Len(earlyTasks(<<>>, epubDir, tree))
  /\ \E id \in UUIDs :
       LET r == generateContentOpfEarly(metadata, htmlFiles, Arg("string", id),
                                        undefined, undefined)
       IN /\ uuid' = id /\ uuidCalls' = uuidCalls + 1
          /\ IF r.threw
             THEN /\ pc' = "rejected" /\ error' = "TypeError"
                  /\ UNCHANGED <<zip, contentOpf>>
             ELSE /\ pc' = "etoc" /\ error' = error
                  /\ contentOpf' = << r.doc >>
                  /\ zip' = zipFile(zip, opfName, Text("content.opf"))
  /\ UNCHANGED <<inputVars, queueVars, disk, walkVars, imageVars, uniqueImageFiles,
                 tocXhtml, tocNcx, outVars>>

NextEarly == EarlyStart \/ EarlyConvert \/ EarlyGenerate

SpecEarly == InitEarly /\ [][NextEarly]_vars

----------------------------------------------------------------------------
(* codeToMarkdown applied to a content string; a string is the sequence of *)
(* its characters: "tick" is a backtick, "nl" a newline, "x" any other     *)

MaxContent == 4

Chars == { "tick", "x", "nl" }

\* (content.match(/`+/g) || []).reduce(max of the lengths, 0): k is the
\* position read, run the length of the run that ends before it
RECURSIVE maxBackticksFrom(_, _, _, _)
maxBackticksFrom(content, k, run, max) ==
  IF k > Len(content) THEN IF run > max THEN run ELSE max
  ELSE IF content[k] = "tick" THEN maxBackticksFrom(content, k + 1, run + 1, max)
  ELSE maxBackticksFrom(content, k + 1, 0, IF run > max THEN run ELSE max)

\* "`".repeat(n)
repeatBacktick(n) == [ i \in 1..n |-> "tick" ]

\* a fence of three backticks whatever the content holds
codeToMarkdownThreeTicks(content, language) ==
  repeatBacktick(3) \o language \o << "nl" >> \o content \o << "nl" >> \o repeatBacktick(3)

codeToMarkdown(content, language) ==
  LET maxBackticks == maxBackticksFrom(content, 1, 0, 0)
      backtickSequence == repeatBacktick(IF maxBackticks + 1 > 3 THEN maxBackticks + 1
                                         ELSE 3)
  IN backtickSequence \o language \o << "nl" >> \o content \o << "nl" >> \o backtickSequence

InitFence ==
  /\ pc = "pure"
  /\ givenPath \in SeqsUpTo(Chars, MaxContent)
  /\ outputs = <<>> /\ chapters = <<>>
  /\ Idle

\* codeToMarkdown(content, extension.slice(1)) as processFilesImproved and
\* processFiles call it
ApplyCodeToMarkdown ==
  /\ pc = "pure" /\ outputs = <<>>
  /\ \E language \in { <<>>, << "x", "x" >> } :
       outputs' = << [ fn |-> "codeToMarkdown", file |-> "src/index.js",
                       language |-> language,
                       value |-> codeToMarkdown(givenPath, language) ] >>
  /\ UNCHANGED <<pc, tree, coverImagePath, resourcePaths, markdownFiles, firstRun,
                 givenPath, chapters, queueVars, disk, zip, walkVars, imageVars,
                 genVars, outVars, error>>

NextFence == ApplyCodeToMarkdown

SpecFence == InitFence /\ [][NextFence]_vars

----------------------------------------------------------------------------
(* src/index.js: generateFileName applied to an index, and createTempFiles *)
(* applied to a chapter list; a file name is the sequence of its characters *)

MaxIndex == 3910
MaxTempChapters == 64

\* lines 19-23
asciiChars ==
  << "0", "1", "2", "3", "4", "5", "6", "7", "8", "9",
     "a", "b", "c", "d", "e", "f", "g", "h", "i", "j", "k", "l", "m",
     "n", "o", "p", "q", "r", "s", "t", "u", "v", "w", "x", "y", "z",
     "A", "B", "C", "D", "E", "F", "G", "H", "I", "J", "K", "L", "M",
     "N", "O", "P", "Q", "R", "S", "T", "U", "V", "W", "X", "Y", "Z" >>

\* a generator that keeps the last digit only
generateFileNameLastDigit(index) ==
  << asciiChars[(index % Len(asciiChars)) + 1] >>

\* the while loop of lines 104-107
RECURSIVE generateFileNameLoop(_, _)
generateFileNameLoop(index, fileName) ==
  IF index >= 0
  THEN generateFileNameLoop((index \div Len(asciiChars)) - 1,
                            << asciiChars[(index % Len(asciiChars)) + 1] >> \o fileName)
  ELSE fileName

generateFileName(index) == generateFileNameLoop(index, <<>>)

\* the name of every index up to MaxIndex
fileNames == [ index \in 0..MaxIndex |-> generateFileName(index) ]

tempDirRelativePath == << N("t", "") >>

\* the arguments generateEpub has collected before it calls createTempFiles
pandocArgsBefore ==
  << "-f", "markdown", "-t", "epub", "--metadata", "title", "--metadata", "author",
     "--metadata", "language", "--toc", "--toc-depth", "2", "-o", "epubFileName" >>

\* chapters.forEach of lines 119-124, from position `index` (0-based) on:
\* every position pushes its path, and a path holds what the last position
\* that wrote it left there
writeTempFiles(d, pandocArgs, list, index) ==
  LET tempFilePath(i) == Append(tempDirRelativePath, N(generateFileName(i), ""))
      positions == index..(Len(list) - 1)
      written == { tempFilePath(i) : i \in positions }
      lastWriter(p) ==
        LET writers == { i \in positions : tempFilePath(i) = p }
        IN CHOOSE i \in writers : \A j \in writers : j <= i
  IN [ disk |-> [ p \in DOMAIN d \cup written |->
                    IF p \in written
                    THEN File("temp", list[lastWriter(p) + 1], <<>>)
                    ELSE d[p] ],
       pandocArgs |-> pandocArgs \o [ k \in 1..(Len(list) - index) |->
                                        tempFilePath(index + k - 1) ] ]

\* lines 112-127
createTempFiles(d, pandocArgs, list) ==
  LET removed == IF \E p \in DOMAIN d : IsPrefix(tempDirRelativePath, p)
                 THEN cleanDirectory(d, tempDirRelativePath)
                 ELSE d
  IN writeTempFiles(removed, pandocArgs, list, 0)

TempChapters ==
  { [ title |-> "A", content |-> "x" ], [ title |-> "B", content |-> "y" ] }
TempChapterLists ==
  { [ i \in 1..n |-> IF i % 2 = 1 THEN first ELSE second ] :
      n \in 0..MaxTempChapters, first \in TempChapters, second \in TempChapters }
\* what an interrupted earlier run left in the temporary directory
staleTempDisk ==
  writeFile(emptyDisk, Append(tempDirRelativePath, N(<< "z", "z" >>, "")),
            File("temp", [ title |-> "B", content |-> "y" ], <<>>))

InitTemp ==
  /\ \/ /\ pc = "pure"
        /\ givenPath \in 0..MaxIndex
        /\ chapters = <<>>
        /\ disk = emptyDisk
     \/ /\ pc = "temp"
        /\ givenPath = 0
        /\ chapters \in TempChapterLists
        /\ disk \in { emptyDisk, staleTempDisk }
  /\ outputs = <<>>
  /\ tree = {} /\ coverImagePath = <<>> /\ resourcePaths = <<>>
  /\ markdownFiles = <<>> /\ firstRun = <<>>
  /\ Fresh

ApplyGenerateFileName ==
  /\ pc = "pure" /\ outputs = <<>>
  /\ outputs' = << Output("generateFileName", "src/index.js", generateFileName(givenPath)) >>
  /\ UNCHANGED <<pc, tree, coverImagePath, resourcePaths, markdownFiles, firstRun,
                 givenPath, chapters, disk, queueVars, zip, walkVars, imageVars,
                 genVars, outVars, error>>

\* generateEpub, line 150: createTempFiles(pandocArgs, chapters)
CreateTempFiles ==
  /\ pc = "temp"
  /\ LET r == createTempFiles(disk, pandocArgsBefore, chapters)
     IN /\ disk' = r.disk
        /\ outputs' = << Output("createTempFiles", "src/index.js", r.pandocArgs) >>
  /\ pc' = "tempWritten"
  /\ UNCHANGED <<tree, coverImagePath, resourcePaths, markdownFiles, firstRun,
                 givenPath, chapters, queueVars, zip, walkVars, imageVars,
                 genVars, outVars, error>>

NextTemp == ApplyGenerateFileName \/ CreateTempFiles

SpecTemp == InitTemp /\ [][NextTemp]_vars

----------------------------------------------------------------------------
(* processFiles of src/repoTomd.js, lines 51-115, and of src/unnamed/part_000, *)
(* lines 44-66: the walk that writes one Markdown file per source file        *)

MaxTomdFiles == 2

\* the order in which fs.readdirSync lists the names of a directory
TomdNameOrder ==
  << N("a", ".js"), N("a", ".md"), N("a", ".ts"), N("b", ".py"), N("c", ".txt"),
     N("lib", ""), N("scripts", "") >>
TomdPaths ==
  { Append(dir, file) :
      dir \in { <<>>, << N("lib", "") >>, << N("scripts", "") >> },
      file \in { N("a", ".js"), N("a", ".md"), N("a", ".ts"), N("b", ".py"),
                 N("c", ".txt") } }
TomdTrees == { t \in SUBSET TomdPaths : Cardinality(t) <= MaxTomdFiles }

readTomdDir(dir, t) ==
  SelectSeq(TomdNameOrder, LAMBDA n : \E p \in t : IsPrefix(Append(dir, n), p))

\* src/repoTomd.js, lines 72-88: the directories the walk does not enter (it
\* also skips names that begin with a dot; no name of TomdNameOrder does)
repoTomdSkipped ==
  { N("fixtures", ""), N("node_modules", ""), N("dist", ""), N("build", ""),
    N("coverage", ""), N("test", ""), N("tests", ""), N("__tests__", ""),
    N("__mocks__", ""), N("example", ""), N("examples", ""), N("script", ""),
    N("scripts", "") }

\* what fs.writeFileSync(markdownPath, markdownContent) leaves in the file
Markdown(filePath, fenced, heading) ==
  [ source |-> filePath, fenced |-> fenced, title |-> heading ]

\* files.forEach of processFiles; `skipped` is empty and `titled` FALSE for
\* src/unnamed/part_000, which enters every directory and writes no heading
RECURSIVE processFiles(_, _, _, _, _, _, _)
processFiles(dir, baseDir, codeExtensions, skipped, titled, t, d) ==
  LET RECURSIVE each(_, _)
      each(files, d1) ==
        IF Len(files) = 0 THEN d1
        ELSE LET file == Head(files)
                 filePath == Append(dir, file)
                 extension == file[2]
                 d2 == IF isDirectory(filePath, t)
                       THEN IF file \in skipped THEN d1
                            ELSE processFiles(filePath, Append(baseDir, file),
                                              codeExtensions, skipped, titled, t, d1)
                       ELSE IF extension \in codeExtensions \/ extension = ".md"
                            THEN writeFile(d1,
                                   Append(baseDir, withExt(basenameExt(file, extension), ".md")),
                                   Markdown(filePath, extension \in codeExtensions,
                                            IF titled THEN << repoTomdTitle(filePath) >> ELSE <<>>))
                            ELSE d1
             IN each(Tail(files), d2)
  IN each(readTomdDir(dir, t), d)

InitTomd ==
  /\ pc = "tomd"
  /\ tree \in TomdTrees
  /\ givenPath = <<>> /\ outputs = <<>> /\ chapters = <<>>
  /\ coverImagePath = <<>> /\ resourcePaths = <<>>
  /\ markdownFiles = <<>> /\ firstRun = <<>> /\ disk = emptyDisk
  /\ Fresh

\* src/repoTomd.js, main: processFiles(fullRepoDir, baseDir, codeExtensions, repoName)
ProcessFilesRepoTomd ==
  /\ pc = "tomd"
  /\ disk' = processFiles(<<>>, markdownBase, repoTomdCodeExtensions, repoTomdSkipped,
                          TRUE, tree, disk)
  /\ pc' = "tomdWritten"
  /\ UNCHANGED <<tree, coverImagePath, resourcePaths, markdownFiles, firstRun,
                 givenPath, outputs, chapters, queueVars, zip, walkVars, imageVars,
                 genVars, outVars, error>>

\* src/unnamed/part_000, main: processFiles(fullRepoDir, baseDir, codeExtensions)
ProcessFilesPart000 ==
  /\ pc = "tomd"
  /\ disk' = processFiles(<<>>, markdownBase, indexCodeExtensions, {}, FALSE, tree, disk)
  /\ pc' = "part000Written"
  /\ UNCHANGED <<tree, coverImagePath, resourcePaths, markdownFiles, firstRun,
                 givenPath, outputs, chapters, queueVars, zip, walkVars, imageVars,
                 genVars, outVars, error>>

NextTomd == ProcessFilesRepoTomd \/ ProcessFilesPart000

SpecTomd == InitTomd /\ [][NextTomd]_vars

----------------------------------------------------------------------------
(* Properties *)

\* the manifest item a spine itemref points to
itemOfId(manifest, id) ==
  manifest[CHOOSE k \in 1..Len(manifest) : manifest[k].id = id]

\* C1: for a chapter list of length N, the spine holds N itemrefs and toc.ncx
\* holds N navPoints, and the i-th itemref and the i-th navPoint both refer to
\* the i-th chapter of the list.
C1_SpineAndNavPointsAgree ==
  (Len(contentOpf) > 0 /\ Len(tocNcx) > 0) =>
    LET opf == contentOpf[1]
        ncx == tocNcx[1]
    IN /\ Len(opf.spine) = Len(htmlFiles)
       /\ Len(ncx.navPoints) = Len(htmlFiles)
       /\ \A i \in 1..Len(htmlFiles) :
            /\ \E k \in 1..Len(opf.manifest) : opf.manifest[k].id = opf.spine[i].idref
            /\ itemOfId(opf.manifest, opf.spine[i].idref).href = htmlFiles[i]
            /\ ncx.navPoints[i].src = htmlFiles[i]
            /\ ncx.navPoints[i].playOrder = i

C1_Witness ==
  /\ pc = "pure" /\ Len(contentOpf) > 0 /\ Len(tocNcx) > 0
  /\ Len(htmlFiles) = 3 /\ htmlFiles[1] # htmlFiles[3]
  /\ Len(contentOpf[1].spine) = 3 /\ Len(tocNcx[1].navPoints) = 3

\* C2: one invocation of createEpub calls uuidv4 at most once, and the
\* identifier of content.opf and the uid of toc.ncx are both that value.
C2_OneUuidInBothDocuments ==
  /\ uuidCalls <= 1
  /\ Len(contentOpf) > 0 => (uuidCalls = 1 /\ contentOpf[1].identifier = uuid)
  /\ Len(tocNcx) > 0 =>
       /\ Len(contentOpf) > 0
       /\ tocNcx[1].uid = contentOpf[1].identifier
       /\ tocNcx[1].uid \in UUIDs

C2_Witness ==
  /\ pc = "done" /\ uuidCalls = 1
  /\ Len(contentOpf) > 0 /\ Len(tocNcx) > 0
  /\ contentOpf[1].identifier = "uuid-2" /\ tocNcx[1].uid = "uuid-2"

\* C3: in every archive, of mdToEpub.js and of markedZip.js alike, the first
\* entry is the file mimetype, stored without compression, holding
\* application/epub+zip.
C3_MimetypeFirst ==
  Len(zip) > 0 =>
    /\ zip[1].name = mimetypeName /\ ~zip[1].dir
    /\ zip[1].compression = "STORE"
    /\ zip[1].content = Text("application/epub+zip")

\* the archive markedZip.js writes: the folders come first, mimetype third
C3_Witness ==
  /\ pc = "done" /\ Len(epubFile) > 0 /\ Len(htmlFiles) > 0
  /\ epubFile[1][1].name = metaInfName /\ epubFile[1][1].dir
  /\ epubFile[1][2].name = epubDir /\ epubFile[1][2].dir
  /\ epubFile[1][3].name = mimetypeName

\* C4: when generating content.opf, toc.xhtml or toc.ncx or serializing the
\* archive throws, the build has failed and epubPath is not written; epubPath
\* is written only with the serialized archive holding all three documents.
C4_NoArchiveAfterFailure ==
  /\ error \in { "opf", "toc.xhtml", "toc.ncx", "generateAsync" } =>
       (pc = "failed" /\ Len(epubFile) = 0)
  /\ Len(epubFile) > 0 =>
       /\ Len(contentOpf) > 0 /\ Len(tocXhtml) > 0 /\ Len(tocNcx) > 0
       /\ Len(serialized) > 0 /\ epubFile = serialized
       /\ \A name \in { opfName, tocXhtmlName, tocNcxName } :
            hasEntry(epubFile[1], name, FALSE)

C4_Witness ==
  /\ pc = "failed" /\ error = "toc.ncx"
  /\ Len(contentOpf) > 0 /\ Len(tocXhtml) > 0 /\ Len(tocNcx) = 0
  /\ Len(htmlFiles) > 0 /\ Len(epubFile) = 0

\* the chapter file processImages reads and rewrites for the k-th chapter
chapterFile(k) == join(epubDir, htmlFiles[k])

\* the download of the i-th image of the k-th chapter failed
fetchFailed(k, i) == results[k][i].download = "rejected"

\* C5: a remote image whose fetch times out, errors or answers 404 is rewritten
\* to the placeholder; the failure is not what fails a build (processImages
\* fails only on a local reference or a missing chapter file), the chapters
\* after it are processed, and a finished build has written the archive.
C5_FetchFailureBecomesPlaceholder ==
  /\ \A k \in 1..Len(results) : \A i \in 1..Len(results[k]) :
       fetchFailed(k, i) =>
         /\ results[k][i].status = "fulfilled"
         /\ results[k][i].newSrc = placeholderSrc
         /\ results[k][i].newSrc \notin Range(imageFiles)
         /\ k < imgIdx => disk[chapterFile(k)].imgs[i] = placeholderSrc
  /\ (pc = "failed" /\ error = "ENOENT" /\ Len(results) = imgIdx /\ imgIdx > 0) =>
       \E i \in 1..Len(results[imgIdx]) : ~startsWithHttp(results[imgIdx][i].src)
  /\ pc \in { "genOpf", "genTocXhtml", "genTocNcx", "serialize", "write",
              "validate", "done" } => Len(results) = Len(htmlFiles)
  /\ pc = "done" => Len(epubFile) > 0

C5_Witness ==
  /\ pc = "done" /\ Len(epubFile) > 0
  /\ Len(htmlFiles) = 2 /\ Len(results) = 2
  /\ \E i \in 1..Len(results[1]) :
       /\ fetchFailed(1, i)
       /\ disk[chapterFile(1)].imgs[i] = placeholderSrc
  /\ hasEntry(epubFile[1], chapterFile(2), FALSE)

\* C6: a local image reference to a file that does not exist is rewritten to
\* the placeholder and is not registered as an image file, and the build does
\* not fail on it.
C6_LocalMissingBecomesPlaceholder ==
  \A k \in 1..Len(results) : \A i \in 1..Len(results[k]) :
    LET r == results[k][i]
    IN (~startsWithHttp(r.src) /\ ~existsSync(disk, join(epubDir, r.src))) =>
         /\ r.newSrc = placeholderSrc
         /\ r.src \notin Range(imageFiles)
         /\ ~(pc = "failed" /\ k = imgIdx)

\* a chapter whose only image is a local reference to a missing file: the
\* reference is kept and registered, reading it fails the build
C6_Witness ==
  /\ pc = "failed" /\ error = "ENOENT" /\ Len(epubFile) = 0
  /\ Len(results) = 1 /\ imgIdx = 1
  /\ results[1] = << Promise("settled", "fulfilled", localMissing, localMissing, "none") >>
  /\ imageFiles = << localMissing >>

\* the conversions that returned, in the order they ran
returned == SelectSeq(convLog, LAMBDA c : c.outcome # "writeFailed")

\* C7: when the converter fails for a Markdown file, the error notice is
\* written at the chapter's output path, the chapter is appended to the
\* chapter list at its position, and the walk goes on through every later
\* file and subdirectory: the build fails only after the walk has finished.
C7_ConverterFailureIsRecovered ==
  /\ Len(convLog) = taskIdx - 1
  /\ \A i \in 1..Len(convLog) :
       /\ convLog[i].source = Append(tasks[i].markdownDir, tasks[i].file)
       /\ convLog[i].outcome = "failed" =>
            /\ existsSync(disk, convLog[i].path)
            /\ disk[convLog[i].path].kind = "notice"
            /\ disk[convLog[i].path].source = convLog[i].source
  /\ Len(htmlFiles) = Len(returned) /\ Len(titles) = Len(returned)
  /\ \A i \in 1..Len(htmlFiles) : Last(htmlFiles[i]) = Last(returned[i].path)
  /\ pc \in { "failed", "done" } /\ tree # {} => taskIdx = Len(tasks) + 1

C7_Witness ==
  /\ pc = "done" /\ Len(convLog) = 2 /\ Len(htmlFiles) = 2
  /\ convLog[1].outcome = "failed" /\ convLog[2].outcome = "ok"
  /\ Len(convLog[2].path) = 3
  /\ disk[convLog[1].path].kind = "notice"
  /\ hasEntry(epubFile[1], convLog[1].path, FALSE)

\* the hrefs of the Markdown files in the order the queued walk pushes them
RECURSIVE discoveredFrom(_)
discoveredFrom(k) ==
  IF k > Len(dirs) THEN <<>>
  ELSE LET d == dirs[k]
           mdFiles == markdownFilesOf(readdirSync(d.markdownDir, tree))
       IN [ i \in 1..Len(mdFiles) |->
              queuedHref(Append(d.epubDir, htmlFilenameOf(mdFiles[i]))) ]
            \o discoveredFrom(k + 1)
discovered == discoveredFrom(1)
discoveryIndex(href) == CHOOSE k \in 1..Len(discovered) : discovered[k] = href

\* C8: with the work queue, for every interleaving of conversion completions
\* the chapters of htmlFiles are in the order the Markdown files were
\* discovered and pushed.
C8_QueueKeepsDiscoveryOrder ==
  \A i \in 1..Len(htmlFiles) : \A j \in 1..Len(htmlFiles) :
    i < j => discoveryIndex(htmlFiles[i]) < discoveryIndex(htmlFiles[j])

\* a.md and b.md of one directory, b.md finished first
C8_Witness ==
  /\ pc = "qdone"
  /\ tree = { << N("a", ".md") >>, << N("b", ".md") >> }
  /\ htmlFiles = << << N("b", ".xhtml") >>, << N("a", ".xhtml") >> >>

\* C9: no two items of a manifest built by generateContentOpf have the same id.
C9_ManifestIdsDistinct ==
  Len(contentOpf) > 0 =>
    LET manifest == contentOpf[1].manifest
    IN \A i \in 1..Len(manifest) : \A j \in 1..Len(manifest) :
         manifest[i].id = manifest[j].id => i = j

C9_Witness ==
  /\ pc = "pure" /\ Len(contentOpf) > 0
  /\ Len(htmlFiles) = 3 /\ Len(uniqueImageFiles) = 2 /\ Len(resourcePaths) = 2
  /\ uniqueImageFiles[1] # uniqueImageFiles[2]
  /\ resourcePaths[1] # resourcePaths[2]
  /\ Len(coverImagePath) > 0
  /\ Len(contentOpf[1].manifest) >= 9

\* C10: the href of every chapter, nested ones included, is its path relative
\* to OEBPS: OEBPS/<href> is the file the converter wrote for it, and no two
\* chapters have the same href.
C10_HrefIsPathBelowPackageRoot ==
  /\ Len(htmlFiles) = Len(returned)
  /\ \A i \in 1..Len(htmlFiles) : join(epubDir, htmlFiles[i]) = returned[i].path
  /\ \A i \in 1..Len(htmlFiles) : \A j \in 1..Len(htmlFiles) :
       htmlFiles[i] = htmlFiles[j] => i = j

\* s/a.md: the converter wrote OEBPS/s/a.xhtml, the chapter list holds a.xhtml
C10_Witness ==
  /\ tree = { << N("s", ""), N("a", ".md") >> }
  /\ Len(returned) = 1
  /\ returned[1].path = << N("OEBPS", ""), N("s", ""), N("a", ".xhtml") >>
  /\ htmlFiles = << << N("a", ".xhtml") >> >>
  /\ pc = "failed" /\ error = "ENOENT" /\ Len(epubFile) = 0

\* the positions of the manifest items with the given href
itemsWithHref(manifest, href) == { k \in 1..Len(manifest) : manifest[k].href = href }

\* C11: an image path collected more than once (the same remote URL twice in
\* one chapter, or the same image in several chapters) is passed once to
\* generateContentOpf, and content.opf holds exactly one manifest item with
\* that path as href.
C11_OneManifestItemPerImage ==
  /\ \A i \in 1..Len(uniqueImageFiles) : \A j \in 1..Len(uniqueImageFiles) :
       uniqueImageFiles[i] = uniqueImageFiles[j] => i = j
  /\ Len(contentOpf) > 0 =>
       \A f \in Range(imageFiles) \cup { placeholderSrc } :
         Cardinality(itemsWithHref(contentOpf[1].manifest, f)) = 1

C11_Witness ==
  /\ pc = "done" /\ Len(results) = 1 /\ Len(results[1]) = 2
  /\ results[1][1].src = httpUrl /\ results[1][2].src = httpUrl
  /\ results[1][1].download = "resolved" /\ results[1][2].download = "resolved"
  /\ Len(imageFiles) = 2 /\ imageFiles[1] = imageFiles[2]
  /\ Cardinality(itemsWithHref(contentOpf[1].manifest, imageFiles[1])) = 1

\* a failure while generating the archive's documents or serializing it, or a
\* filesystem error while the working directory is cleaned and created
fatalFailure ==
  \/ pc = "rejected"
  \/ error \in { "opf", "toc.xhtml", "toc.ncx", "generateAsync" }

\* C12: a build that hit a fatal failure ends with a non-zero exit status; a
\* build that finished, whatever conversions and images failed in it, ends
\* with status 0.
C12_FatalFailureExitsNonZero ==
  Len(exitStatus) > 0 =>
    /\ fatalFailure => exitStatus[1] # 0
    /\ pc = "done" => exitStatus[1] = 0

\* content.opf could not be generated, the failure was logged, the process
\* ended with status 0
C12_Witness ==
  /\ pc = "failed" /\ error = "opf" /\ Len(epubFile) = 0
  /\ exitStatus = << 0 >>

\* the source tree holds exactly one Markdown file, its conversion returned
\* and the rendered chapter holds no image reference
oneChapterNoImages ==
  /\ countMarkdownFiles(<<>>, tree) = 1
  /\ Len(convLog) = 1 /\ convLog[1].outcome # "writeFailed"
  /\ disk[convLog[1].path].imgs = <<>>

\* the failures of the environment a build can meet after the image pass
environmentFailures == { "opf", "toc.xhtml", "toc.ncx", "generateAsync", "writeFileSync" }

\* C13: building a tree with exactly one chapter and no image reference yields
\* an archive holding the chapter's converted file under OEBPS/, a manifest
\* with exactly one chapter item, the ncx item and the nav item and no other
\* item, and a spine with exactly one itemref.
C13_SingleChapterArchive ==
  oneChapterNoImages =>
    /\ pc = "failed" => error \in environmentFailures
    /\ pc = "done" =>
         /\ hasEntry(epubFile[1], convLog[1].path, FALSE)
         /\ Len(contentOpf[1].spine) = 1
         /\ Len(contentOpf[1].manifest) = 3
         /\ { contentOpf[1].manifest[k].id : k \in 1..3 } = { "item1", "ncx", "nav" }

\* a.md alone, no cover, no resources: the manifest holds a fourth item, the
\* placeholder image
C13_Witness ==
  /\ pc = "done" /\ oneChapterNoImages
  /\ tree = { << N("a", ".md") >> }
  /\ Len(coverImagePath) = 0 /\ Len(resourcePaths) = 0
  /\ hasEntry(epubFile[1], convLog[1].path, FALSE)
  /\ Len(contentOpf[1].spine) = 1
  /\ Len(contentOpf[1].manifest) = 4
  /\ contentOpf[1].manifest[2] =
       Item("image1", placeholderSrc, "image/svg+xml;charset=utf-8", "")

----------------------------------------------------------------------------
(* Two runs of createEpub (src/mdToEpub.js) on the same inputs: the second   *)
(* run starts from the disk the first one left and meets the same converter  *)
(* and network outcomes, in any interleaving                                 *)

\* the first run ended and the script is started again
RunAgain ==
  /\ pc = "done" /\ Len(exitStatus) > 0 /\ Len(firstRun) = 0
  /\ firstRun' = << [ convLog |-> convLog, results |-> results,
                      contentOpf |-> contentOpf[1], tocNcx |-> tocNcx[1] ] >>
  /\ pc' = "start"
  /\ zip' = <<>> /\ htmlFiles' = <<>> /\ titles' = <<>>
  /\ processedFiles' = [ count |-> 0, total |-> 0 ]
  /\ taskIdx' = 1 /\ convLog' = <<>> /\ imgIdx' = 1 /\ htmlContent' = <<>>
  /\ downloads' = <<>> /\ imageFiles' = <<>> /\ results' = <<>>
  /\ uniqueImageFiles' = <<>> /\ uuid' = "" /\ uuidCalls' = 0
  /\ contentOpf' = <<>> /\ tocXhtml' = <<>> /\ tocNcx' = <<>>
  /\ serialized' = <<>> /\ epubFile' = <<>> /\ error' = "none"
  /\ validated' = "no" /\ exitStatus' = <<>>
  /\ UNCHANGED <<tree, coverImagePath, resourcePaths, markdownFiles, elsewhereVars,
                 disk, queueVars>>

\* the step just taken met the outcomes of the first run: no failure of the
\* environment, the same conversions, the same result of every settled download
sameOutcomes ==
  /\ pc' \notin { "failed", "rejected" }
  /\ Len(convLog') <= Len(firstRun[1].convLog)
  /\ \A i \in 1..Len(convLog') : convLog'[i] = firstRun[1].convLog[i]
  /\ pc' = "downloading" =>
       /\ Len(downloads') = Len(firstRun[1].results[imgIdx'])
       /\ \A i \in 1..Len(downloads') :
            downloads'[i].state = "settled" =>
              downloads'[i] = firstRun[1].results[imgIdx'][i]

FirstRunStep == Len(firstRun) = 0 /\ Next
SecondRunStep == Len(firstRun) > 0 /\ Next /\ sameOutcomes

NextTwice == FirstRunStep \/ RunAgain \/ SecondRunStep

SpecTwice == Init /\ [][NextTwice]_vars

\* a document without the field that holds the uuid
withoutIdentifier(opf) == [ opf EXCEPT !.identifier = "" ]
withoutUid(ncx) == [ ncx EXCEPT !.uid = "" ]

C15_NavigationMatchesChapters ==
  \A i \in 1..Len(htmlFiles) :
    /\ Len(tocNcx) > 0 =>
         /\ tocNcx[1].navPoints[i].playOrder = i
         /\ tocNcx[1].navPoints[i].navLabel = titles[i]
         /\ tocNcx[1].navPoints[i].src = htmlFiles[i]
    /\ Len(tocXhtml) > 0 =>
         /\ Len(tocXhtml[1]) = Len(htmlFiles)
         /\ tocXhtml[1][i].href = htmlFiles[i]
         /\ tocXhtml[1][i].title = titles[i]
    /\ Len(contentOpf) > 0 =>
         /\ contentOpf[1].manifest[i].id = "item" \o ToString(i)
         /\ contentOpf[1].manifest[i].href = htmlFiles[i]
         /\ contentOpf[1].manifest[i].mediaType = "application/xhtml+xml"

C15_Witness ==
  /\ pc = "pure" /\ Len(contentOpf) > 0 /\ Len(tocNcx) > 0 /\ Len(tocXhtml) > 0
  /\ Len(htmlFiles) = 3 /\ titles = << "a", "b", "a" >>
  /\ tocXhtml[1][2] = [ href |-> << N("s", ""), N("b", ".xhtml") >>, title |-> "b" ]
  /\ tocNcx[1].navPoints[2].navLabel = "b"
  /\ contentOpf[1].manifest[2].href = << N("s", ""), N("b", ".xhtml") >>

\* the media type the extension stands for
mediaTypeOf(extension) ==
  CASE extension \in { ".jpg", ".jpeg" } -> "image/jpeg"
    [] extension = ".png" -> "image/png"
    [] extension = ".gif" -> "image/gif"
    [] extension = ".webp" -> "image/webp"
    [] extension = ".svg" -> "image/svg+xml"
    [] OTHER -> "application/octet-stream"

\* C16: getMediaType returns, for the extension of the path whatever its
\* case, image/jpeg for .jpg and .jpeg, image/png for .png, image/gif for
\* .gif, image/webp for .webp, image/svg+xml for .svg, and
\* application/octet-stream for any other extension and for none.
C16_MediaTypeTable ==
  \A i \in 1..Len(outputs) :
    outputs[i].fn = "getMediaType" =>
      outputs[i].value = mediaTypeOf(toLowerCase(extname(givenPath)))

\* images/p.svg: one variant answers with a charset parameter, the other with
\* the default
C16_Witness ==
  /\ givenPath = << N("images", ""), N("p", ".svg") >>
  /\ outputs = << Output("getMediaType", "src/mdToEpub.js", "image/svg+xml;charset=utf-8"),
                  Output("getMediaType", "src/unnamed/part_001", "application/octet-stream") >>

\* the path with " > " for every separator, a space for every underscore, and
\* the extension of the file removed
titleOfPath(relativePath) ==
  separatorsToArrows([ i \in 1..Len(relativePath) |->
                         IF i = Len(relativePath)
                         THEN replaceUnderscores(relativePath[i][1])
                         ELSE replaceUnderscores(relativePath[i][1]) \o relativePath[i][2] ])

\* C17: each of the three title computations (index.js, repoTomd.js, the
\* queued processMarkdownFiles) gives, for a relative file path, that path with
\* every separator replaced by " > ", every underscore by a space and the
\* source extension stripped; the same path always gives the same title.
C17_TitleOfRelativePath ==
  \A i \in 1..Len(outputs) :
    outputs[i].fn = "chapterTitle" => outputs[i].value = titleOfPath(givenPath)

\* sub_dir/my_file.md under all three computations
C17_Witness ==
  /\ givenPath = << N("sub_dir", ""), N("my_file", ".md") >>
  /\ outputs = << Output("chapterTitle", "src/index.js", "sub dir > my file.md"),
                  Output("chapterTitle", "src/repoTomd.js", "sub dir > my file.md"),
                  Output("chapterTitle", "src/unnamed/part_001", "sub_dir > my_file") >>

\* every file below dir, directories entered where they are listed
RECURSIVE walkOrder(_, _)
RECURSIVE walkOrderOf(_, _, _)
walkOrderOf(dir, files, t) ==
  IF Len(files) = 0 THEN <<>>
  ELSE LET filePath == Append(dir, Head(files))
           here == IF isDirectory(filePath, t) THEN walkOrder(filePath, t)
                   ELSE << filePath >>
       IN here \o walkOrderOf(dir, Tail(files), t)
walkOrder(dir, t) == walkOrderOf(dir, readRepoDir(dir, t), t)

chapterExtensions == { ".js", ".ts", ".py", ".jsx", ".tsx", ".rs", ".md" }

\* C18: after the walk of index.js, the chapters are exactly the files whose
\* extension is one of .js, .ts, .py, .jsx, .tsx, .rs, .md, in walk order;
\* a file with any other extension gives no chapter.
C18_ChaptersAreTheListedExtensions ==
  pc \in { "walked", "walkedExcluding" } =>
    [ i \in 1..Len(chapters) |-> chapters[i].file ]
      = SelectSeq(walkOrder(<<>>, tree), LAMBDA f : extname(f) \in chapterExtensions)

\* the second variant makes a chapter of c.txt and none of node_modules/a.js
C18_Witness ==
  /\ pc = "walkedExcluding"
  /\ tree = { << N("c", ".txt") >>, << N("node_modules", ""), N("a", ".js") >> }
  /\ chapters = << Chapter(<< N("c", ".txt") >>) >>

\* every file the results of a batch name can be read when they are applied
batchReadable(batch) ==
  \A j \in 1..Len(batch) :
    batch[j].state = "settled" =>
      batch[j].newSrc = placeholderSrc \/ existsSync(disk, join(epubDir, batch[j].newSrc))

\* C19: in processImages every image operation of a chapter is started before
\* any is awaited; the chapter is rewritten and written back only after all of
\* them have settled; a failed download never keeps the result of a sibling
\* download from being applied; and the chapters are processed one after
\* another.
C19_SettleAllThenRewrite ==
  /\ pc = "downloading" =>
       /\ imgIdx \in 1..Len(htmlFiles)
       /\ Len(results) = imgIdx - 1
       /\ Len(downloads) = Len(htmlContent)
       /\ \A i \in 1..Len(downloads) : downloads[i].src = htmlContent[i]
       /\ disk[join(epubDir, htmlFiles[imgIdx])].imgs = htmlContent
  /\ \A k \in 1..Len(results) :
       /\ \A i \in 1..Len(results[k]) : results[k][i].state = "settled"
       /\ batchReadable(results[k]) =>
            /\ disk[join(epubDir, htmlFiles[k])].imgs
                 = [ i \in 1..Len(results[k]) |-> results[k][i].newSrc ]
            /\ \A i \in 1..Len(results[k]) :
                 results[k][i].download = "resolved" =>
                   results[k][i].newSrc \in Range(imageFiles)

\* a chapter with two downloads, the first failed and the second resolved,
\* joined and written back
C19_Witness ==
  /\ Len(results) >= 1
  /\ Len(results[1]) = 2
  /\ results[1][1].download = "rejected"
  /\ results[1][2].download = "resolved"
  /\ results[1][2].newSrc \in Range(imageFiles)
  /\ disk[join(epubDir, htmlFiles[1])].imgs = << placeholderSrc, results[1][2].newSrc >>

\* the closures of the chapter whose downloadImage has not settled yet
inFlight == { i \in 1..Len(downloads) : downloads[i].state = "pending" }

\* C20: during the image pass of one chapter no two downloads in flight have
\* the same destination file: the name made from the URL's pathname and query
\* is unique per image reference, repeated references included.
C20_NoSharedDestination ==
  pc = "downloading" =>
    \A i, j \in inFlight :
      i # j => imageDestPath(downloads[i].src) # imageDestPath(downloads[j].src)

\* a chapter that shows the same URL twice: both downloads are in flight and
\* both write OEBPS/images/p.png
C20_Witness ==
  /\ pc = "downloading"
  /\ htmlContent = << httpUrl, httpUrl >>
  /\ inFlight = { 1, 2 }
  /\ imageDestPath(downloads[1].src) = join(epubDir, imagesHref(N("p", ".png")))
  /\ imageDestPath(downloads[2].src) = join(epubDir, imagesHref(N("p", ".png")))

\* the chapters stored in a written archive
archivedChapters ==
  { e \in UNION { Range(epubFile[k]) : k \in 1..Len(epubFile) } :
      ~e.dir /\ e.content.kind = "html" }

\* C21: a chapter is added to the archive only after the image pass has
\* rewritten it: the chapter stored in a written archive holds rewritten
\* image references (archive-relative or the placeholder) and never a remote
\* URL.
C21_ArchivedChaptersAreRewritten ==
  \A e \in archivedChapters :
    \A j \in 1..Len(e.content.imgs) : ~startsWithHttp(e.content.imgs[j])

\* the queued variant wrote an archive whose chapter still shows the remote
\* URL, while the chapter file on the disk was rewritten to the placeholder
C21_Witness ==
  /\ pc = "qwritten"
  /\ \E e \in archivedChapters :
       /\ e.content.imgs = << httpUrl >>
       /\ disk[e.name].imgs = << placeholderSrc >>

\* the outcome the last response of a chain stands for
outcomeOfLast(chain) ==
  IF Last(chain).kind = "response" /\ Last(chain).status = 200
  THEN "resolved" ELSE "rejected"

\* C22: downloadImage follows every 3xx response that carries a Location
\* header with a new request to that location, without a cap: for a chain of
\* k redirects its promise settles with the outcome of the last response,
\* resolved on 200 and rejected otherwise (a 3xx without Location included).
C22_SettlesWithLastResponse ==
  \A i \in 1..Len(outputs) :
    outputs[i].fn = "downloadImage" =>
      outputs[i].value.status = outcomeOfLast(outputs[i].chain)

\* a redirect whose Location is a path only, answered with 200 by the server
\* the path belongs to: the promise is rejected
C22_Witness ==
  /\ givenPath = httpUrl
  /\ outputs = << [ fn |-> "downloadImage", file |-> "src/mdToEpub.js",
                    chain |-> << redirectTo(relativeLocation),
                                 Response("response", 200, "image/png", <<>>) >>,
                    value |-> Rejected ] >>

\* the URL the last request of a chain was sent to
RECURSIVE lastRequested(_, _)
lastRequested(url, chain) ==
  IF Len(chain) <= 1 THEN url ELSE lastRequested(Head(chain).location, Tail(chain))

\* the extension of a known image type, then that of the URL path, then .jpg
extensionByRule(contentType, pathname) ==
  CASE contentType = "image/jpeg" -> ".jpg"
    [] contentType = "image/png" -> ".png"
    [] contentType = "image/gif" -> ".gif"
    [] contentType = "image/webp" -> ".webp"
    [] contentType \in { "image/svg+xml", "image/svg+xml;charset=utf-8" } -> ".svg"
    [] OTHER -> IF extname(pathname) # "" THEN extname(pathname) ELSE ".jpg"

\* C23: for a 200 response downloadImage takes the extension of the stored
\* file from the Content-Type when it names a known image type, otherwise
\* from the URL path, otherwise .jpg; the extension is never empty, whether
\* the header is missing, unknown or known.
C23_ExtensionNeverEmpty ==
  \A i \in 1..Len(outputs) :
    outputs[i].fn = "downloadImage" /\ outputs[i].value.status = "resolved" =>
      /\ extname(outputs[i].value.path) # ""
      /\ extname(outputs[i].value.path)
           = extensionByRule(Last(outputs[i].chain).contentType,
                             pathnameOf(lastRequested(givenPath, outputs[i].chain)))

\* http://h/q answered with 200 and no Content-Type: the file is stored as
\* OEBPS/images/q
C23_Witness ==
  /\ givenPath = noExtensionUrl
  /\ outputs = << [ fn |-> "downloadImage", file |-> "src/mdToEpub.js",
                    chain |-> << Response("response", 200, "", <<>>) >>,
                    value |-> Resolved(join(epubDir, imagesHref(N("q", "")))) ] >>

\* C24: in createEpub the validator is invoked only after the archive has
\* been written to epubPath and never in a build that failed; what the
\* validator reports, or its failure to run, is only logged: the build stays
\* successful and the archive stays as it was written.
C24_ValidatorAfterWriteOnly ==
  /\ validated # "no" =>
       /\ pc = "done" /\ error = "none"
       /\ Len(epubFile) = 1 /\ epubFile = serialized
  /\ pc \in { "failed", "rejected" } => validated = "no"

\* the validator could not run on a written archive
C24_Witness ==
  /\ validated = "failedToRun"
  /\ pc = "done"
  /\ Len(epubFile) = 1 /\ epubFile = serialized

\* the conversions that pushed a chapter, in the order they finished
completed == SelectSeq(convLog, LAMBDA c : c.outcome # "writeFailed")

\* C25: between chapter completions, under every interleaving of the queued
\* conversions and in the sequential variant, htmlFiles and titles have the
\* same length, htmlFiles[i] and titles[i] come from the same source file, and
\* processedFiles.count equals that length and never exceeds
\* processedFiles.total.
C25_ListsAndCountAgree ==
  /\ Len(htmlFiles) = Len(titles)
  /\ Len(htmlFiles) = Len(completed)
  /\ processedFiles.count = Len(htmlFiles)
  /\ processedFiles.count <= processedFiles.total
  /\ \A i \in 1..Len(htmlFiles) :
       /\ Last(htmlFiles[i]) = Last(completed[i].path)
       /\ titles[i] \in { chapterTitle(Last(completed[i].path)),
                          queuedTitle(queuedHref(completed[i].path)) }

\* markdownDir holds only the directory d.md with n.txt in it: nothing is
\* counted, yet the directory is converted to an error notice and counted as
\* processed
C25_Witness ==
  /\ tree = { << N("d", ".md"), N("n", ".txt") >> }
  /\ processedFiles = [ count |-> 1, total |-> 0 ]
  /\ htmlFiles = << << N("d", ".xhtml") >> >>
  /\ titles = << "d" >>

\* the manifest items of the generated content.opf
manifestItems ==
  UNION { Range(contentOpf[k].manifest) : k \in 1..Len(contentOpf) }

\* C26: in every archive a build writes, each manifest item of content.opf
\* (chapters, cover image, images, resources, toc.ncx, toc.xhtml) names a file
\* that was added to the archive at OEBPS/<href>.
C26_ManifestItemsAreArchived ==
  \A k \in 1..Len(epubFile) :
    \A item \in manifestItems : hasEntry(epubFile[k], join(epubDir, item.href), FALSE)

\* a build with a cover image wrote an archive whose manifest has the
\* cover-image item while no cover file is in the archive
C26_Witness ==
  /\ pc = "done" /\ Len(epubFile) = 1
  /\ Len(coverImagePath) > 0
  /\ \E item \in manifestItems :
       /\ item.id = "cover-image"
       /\ ~hasEntry(epubFile[1], join(epubDir, item.href), FALSE)
  /\ \A item \in manifestItems :
       item.id \in { "item1", "ncx", "nav" } =>
         hasEntry(epubFile[1], join(epubDir, item.href), FALSE)

\* C27: createEpub(markdownDir, epubPath, metadata) of part_001 (223-254),
\* called without cover image and resource paths, generates a content.opf
\* with no cover-image item and no resource item and with the generated uuid
\* in dc:identifier, and goes on to write the archive without throwing.
C27_ThreeArgumentCallCompletes ==
  uuidCalls > 0 =>
    /\ pc # "rejected"
    /\ Len(contentOpf) = 1
    /\ \A item \in manifestItems : item.id \in { "ncx", "nav" } \/ item \in Range(chapterItems(htmlFiles))
    /\ \A k \in 1..Len(contentOpf) : contentOpf[k].identifier = uuid

\* one chapter was converted, the uuid was drawn, and generateContentOpf threw:
\* no content.opf, no archive
C27_Witness ==
  /\ Len(htmlFiles) = 1
  /\ uuidCalls = 1 /\ uuid \in UUIDs
  /\ pc = "rejected" /\ error = "TypeError"
  /\ contentOpf = <<>> /\ epubFile = <<>>

\* the number of backticks a string starts with, and ends with
RECURSIVE leadingBackticks(_)
leadingBackticks(text) ==
  IF Len(text) = 0 \/ Head(text) # "tick" THEN 0 ELSE 1 + leadingBackticks(Tail(text))
RECURSIVE trailingBackticks(_)
trailingBackticks(text) ==
  IF Len(text) = 0 \/ Last(text) # "tick" THEN 0 ELSE 1 + trailingBackticks(Front(text))

\* C28: codeToMarkdown wraps every content in an opening and a closing fence
\* of the same length; the fence has at least 3 backticks and is strictly
\* longer than every run of consecutive backticks in the content.
C28_FenceLongerThanEveryRun ==
  \A k \in 1..Len(outputs) :
    outputs[k].fn = "codeToMarkdown" =>
      LET text == outputs[k].value
          fence == leadingBackticks(text)
      IN /\ fence >= 3
         /\ trailingBackticks(text) = fence
         /\ text = repeatBacktick(fence) \o outputs[k].language \o << "nl" >>
                     \o givenPath \o << "nl" >> \o repeatBacktick(fence)
         /\ \A i \in 1..Len(givenPath) : \A j \in i..Len(givenPath) :
              (\A m \in i..j : givenPath[m] = "tick") => j - i + 1 < fence

\* a content that ends in a run of three backticks is fenced with four
C28_Witness ==
  /\ givenPath = << "x", "tick", "tick", "tick" >>
  /\ Len(outputs) = 1
  /\ outputs[1].fn = "codeToMarkdown"
  /\ leadingBackticks(outputs[1].value) = 4
  /\ trailingBackticks(outputs[1].value) = 4

\* C29: generateFileName returns, for every index from 0 on, a non-empty
\* name over the 62 characters 0-9a-zA-Z, and no two indexes get the same
\* name; createTempFiles leaves exactly one file per chapter in the temporary
\* directory, holding that chapter, and appends the paths to the converter's
\* arguments in chapter order.
C29_TempFileNamesDistinct ==
  /\ Len(asciiChars) = 62 /\ Cardinality(Range(asciiChars)) = 62
  /\ \A k \in 1..Len(outputs) :
       /\ outputs[k].fn = "generateFileName" =>
            LET fileName == outputs[k].value
            IN /\ Len(fileName) >= 1
               /\ \A c \in 1..Len(fileName) : fileName[c] \in Range(asciiChars)
               /\ \A other \in 0..MaxIndex :
                    other # givenPath => fileNames[other] # fileName
       /\ outputs[k].fn = "createTempFiles" =>
            LET pandocArgs == outputs[k].value
                before == Len(pandocArgsBefore)
                written == { p \in DOMAIN disk : IsPrefix(tempDirRelativePath, p) }
            IN /\ Len(pandocArgs) = before + Len(chapters)
               /\ SubSeq(pandocArgs, 1, before) = pandocArgsBefore
               /\ \A i \in 1..Len(chapters) :
                    /\ pandocArgs[before + i] \in written
                    /\ disk[pandocArgs[before + i]].source = chapters[i]
                    /\ \A j \in 1..Len(chapters) :
                         i # j => pandocArgs[before + i] # pandocArgs[before + j]
               /\ Cardinality(written) = Len(chapters)

\* sixty-three chapters or more were written over a stale directory: the
\* sixty-third file is the first one with a two-character name
C29_Witness ==
  /\ pc = "tempWritten"
  /\ Len(chapters) >= 63
  /\ applied("createTempFiles", "src/index.js")
  /\ outputs[1].value[Len(pandocArgsBefore) + 63]
       = Append(tempDirRelativePath, N(<< "0", "0" >>, ""))
  /\ Append(tempDirRelativePath, N(<< "0", "0" >>, "")) \in DOMAIN disk

\* the source files of the walked directories that processFiles converts
eligibleFiles ==
  LET skipped == IF pc = "tomdWritten" THEN repoTomdSkipped ELSE {}
      codeExtensions == IF pc = "tomdWritten" THEN repoTomdCodeExtensions
                        ELSE indexCodeExtensions
  IN { p \in tree : /\ \A i \in 1..(Len(p) - 1) : p[i] \notin skipped
                    /\ Last(p)[2] \in codeExtensions \cup { ".md" } }

\* C30: after processFiles, every eligible source file of a walked directory
\* is found in a generated Markdown file of its own: no generated file was
\* overwritten by a later one, and there are as many generated files as
\* eligible source files.
C30_OneMarkdownFilePerSource ==
  pc \in { "tomdWritten", "part000Written" } =>
    /\ \A p \in eligibleFiles : \E m \in DOMAIN disk : disk[m].source = p
    /\ Cardinality(DOMAIN disk) = Cardinality(eligibleFiles)

\* a.js and a.ts of one directory were both converted; only a.md exists and
\* it holds a.ts, the later of the two
C30_Witness ==
  /\ pc = "part000Written"
  /\ tree = { << N("a", ".js") >>, << N("a", ".ts") >> }
  /\ DOMAIN disk = { Append(markdownBase, N("a", ".md")) }
  /\ disk[Append(markdownBase, N("a", ".md"))].source = << N("a", ".ts") >>

====
